---- MODULE Spec2Model ----
(***************************************************************************)
(* Model of the graceful-monitor of cluster-kube-apiserver-operator:       *)
(* pkg/cmd/gracefulmonitor/cmd.go (gracefulRollout and the port maps) and  *)
(* pkg/cmd/gracefulmonitor/iptables.go (ensureActiveRules and              *)
(* ensureTransitionRules), at the granularity of one iptables, filesystem  *)
(* or probe call per step.                                                 *)
(*                                                                         *)
(* The iptables handle is modelled by the contract the calling code relies *)
(* on: a rule is identified by the string strings.Join(rule, " ") the code *)
(* uses as its lookup key, List returns the rules of the chain in chain    *)
(* order in that form, and Delete removes the rule it is given (the        *)
(* source leaves both open: "TODO Will this be valid?", iptables.go:78,    *)
(* "TODO Need to split chainRule?", iptables.go:124).  Every call on the   *)
(* handle, every filesystem call and the manifest scan can fail.           *)
(***************************************************************************)
EXTENDS Integers, Sequences, FiniteSets, TLC

(***************************************************************************)
(* Bounds of the model.                                                    *)
(***************************************************************************)
\* largest number of manifests the directory starts with
MaxManifests == 3
\* largest number of arbitrary stale rules a reconciler call starts with
MaxStale == 1
\* number of times the port map calculator is fed its own result
MaxRotations == 4
\* number of passes in which a call can fail or the process can die
MaxRetries == 1
\* number of runs of the installer
MaxInstalls == 2
\* largest number of pods the operator lists
MaxPods == 2
\* last tick of the signer's clock
MaxTime == 7
\* number of keypairs that exist before the signer generates its last one
MaxKeys == 2

(***************************************************************************)
(* cmd.go: the port maps.                                                  *)
(***************************************************************************)
securePort == 6443
insecurePort == 6080
checkPort == 17697

CanonicalPorts == {securePort, insecurePort, checkPort}

\* the secure ports an instance can be configured with (canonical + offset)
InstancePorts == {securePort, securePort + 1, securePort + 2}

portMapForOffset(offset) ==
    [target \in CanonicalPorts |-> target + offset]

\* activePortMap without the offset of the active port
activePortMapCanonical(activePort) ==
    portMapForOffset(0)

activePortMap(activePort) ==
    portMapForOffset(activePort % 6443)

\* NextPortMap without the case of the active port 6444
NextPortMapNoRotation(activePort) ==
    portMapForOffset(1)

\* NextPortMap stepping to the offset after the active one, modulo three
NextPortMapCycle(activePort) ==
    portMapForOffset(((activePort % 6443) + 1) % 3)

\* NextPortMap taking offset 2 whenever the active port is not the canonical one
NextPortMapOtherwiseTwo(activePort) ==
    portMapForOffset(IF activePort = 6443 \/ activePort = 0 THEN 1 ELSE 2)

NextPortMap(activePort) ==
    portMapForOffset(IF activePort = 6444 THEN 2 ELSE 1)

(***************************************************************************)
(* iptables.go: the rules.  A rule stands for its rulespec joined by       *)
(* blanks; the established rule is the plain rule prefixed with            *)
(* "-m state --state ESTABLISHED,RELATED".                                 *)
(***************************************************************************)
dnatRule(targetPort, destinationPort) ==
    [state |-> "", dport |-> targetPort, to |-> destinationPort]

establishedDNATRule(targetPort, destinationPort) ==
    [dnatRule(targetPort, destinationPort) EXCEPT !.state = "ESTABLISHED,RELATED"]

\* the -j OPENSHIFT_APISERVER_REWRITE rule of PREROUTING and OUTPUT
jumpRule == "-j OPENSHIFT_APISERVER_REWRITE"

\* a rule of the host that the monitor does not own
hostRule == "-j KUBE-SERVICES"

\* the rules the first loop of ensureActiveRules appends and indexes
activeRules(portMap) ==
    {dnatRule(target, portMap[target]) : target \in DOMAIN portMap}

\* the first loop of ensureTransitionRules building its rules with dnatRule
establishedRulesUnscoped(activeMap) ==
    {dnatRule(target, activeMap[target]) : target \in DOMAIN activeMap}

\* the rules the first loop of ensureTransitionRules appends and indexes
establishedRules(activeMap) ==
    {establishedDNATRule(target, activeMap[target]) : target \in DOMAIN activeMap}

Range(s) == {s[i] : i \in 1..Len(s)}

\* Append in the place of AppendUnique
AppendAlways(chain, rule) ==
    Append(chain, rule)

\* AppendUnique: append the rule unless the chain already has it
AppendUnique(chain, rule) ==
    IF rule \in Range(chain) THEN chain ELSE Append(chain, rule)

\* Delete: remove the first rule of the chain that equals the given one
RECURSIVE DeleteRule(_, _)
DeleteRule(chain, rule) ==
    IF chain = <<>> THEN <<>>
    ELSE IF Head(chain) = rule THEN Tail(chain)
    ELSE <<Head(chain)>> \o DeleteRule(Tail(chain), rule)

\* a lookup that finds every listed rule
isDesiredAlways(dnatRules, chainRule) ==
    TRUE

\* the lookup of a listed rule in the index of desired rules
isDesired(dnatRules, chainRule) ==
    chainRule \in dnatRules

\* a deletion loop that ends after the first rule it does not skip
extraRulesFirstOnly(chainRules, dnatRules) ==
    LET extra == SelectSeq(chainRules, LAMBDA r : ~isDesired(dnatRules, r))
    IN  IF extra = <<>> THEN <<>> ELSE <<Head(extra)>>

\* the rules of the listing that the deletion loop does not skip
extraRules(chainRules, dnatRules) ==
    SelectSeq(chainRules, LAMBDA r : ~isDesired(dnatRules, r))

(***************************************************************************)
(* The manifest scanner.                                                   *)
(***************************************************************************)
RECURSIVE SortByRevision(_)
SortByRevision(ms) ==
    IF ms = {} THEN <<>>
    ELSE LET m == CHOOSE x \in ms : \A y \in ms : x.revision <= y.revision
         IN  <<m>> \o SortByRevision(ms \ {m})

\* the manifests of the directory, ordered by revision
StaticPodManifests(dir) == SortByRevision(dir)

\* the manifest with the lowest revision
ActiveManifest(manifests) == manifests[1]

(***************************************************************************)
(* Errors.  An error value names the call site in gracefulRollout and the  *)
(* call that failed.                                                       *)
(***************************************************************************)
NoError == <<>>

Error(site, op) == <<site, op>>

(***************************************************************************)
(* State.                                                                  *)
(***************************************************************************)
Procs == {1, 2}

VARIABLES
    files,          \* the manifests of the pod manifest directory
    up,             \* the manifests whose instance is listening on its ports
    chainExists,    \* nat chain OPENSHIFT_APISERVER_REWRITE exists
    apiChain,       \* its rules, in chain order
    PREROUTING,     \* rules of nat PREROUTING
    OUTPUT,         \* rules of nat OUTPUT
    sched,          \* the invocations the external scheduler has yet to start
    pc,             \* position of each invocation in gracefulRollout
    manifests,      \* gracefulRollout: result of the scan
    origErr,        \* gracefulRollout: err of the failed step during a rollback
    ret,            \* gracefulRollout: the returned error
    fr,             \* the running ensureActiveRules/ensureTransitionRules call
    klog,           \* messages logged with klog.Errorf and klog.Warningf
    failed,         \* the errors of the calls of the invocation that failed
    log,            \* the completed steps of the invocation, in order
    probe,          \* what a connection to the waited-for port met on return
    prev,           \* how the invocation before the running one ended
    instancePort,   \* port map calculator: secure port of the active instance
    portMaps,       \* port map calculator: the maps computed for instancePort
    rotation,       \* port map calculator: secure ports of the instances so far
    installer,      \* the run of the installer's initialization and install
    accessor,       \* operator: the pods listed and what the accessor returned
    signer          \* operator: the bound token signer, its secrets and config map

hostVars == <<files, up, chainExists, apiChain, PREROUTING, OUTPUT>>
procVars == <<sched, pc, manifests, origErr, ret, fr>>
histVars == <<klog, failed, log, probe>>
calcVars == <<instancePort, portMaps, rotation>>
operatorVars == <<accessor, signer>>
vars == <<hostVars, procVars, histVars, prev, calcVars, installer, operatorVars>>

NoFrame ==
    [fn |-> "none", args |-> <<>>, pc |-> "none", dnatRules |-> {},
     loops |-> <<>>, rest |-> <<>>, err |-> NoError]

\* the state of ensureActiveRules(ipt, portMap) on entry
EnterEnsureActiveRules(portMap) ==
    [fn |-> "ensureActiveRules", args |-> <<portMap>>, pc |-> "ChainExists",
     dnatRules |-> activeRules(portMap),
     loops |-> <<activeRules(portMap)>>,
     rest |-> <<>>, err |-> NoError]

\* ensureTransitionRules with its two append loops in the other order
EnterEnsureTransitionRulesNextFirst(activeMap, nextMap) ==
    [fn |-> "ensureTransitionRules", args |-> <<activeMap, nextMap>>,
     pc |-> "AppendUnique",
     dnatRules |-> establishedRules(activeMap) \cup activeRules(nextMap),
     loops |-> <<activeRules(nextMap), establishedRules(activeMap)>>,
     rest |-> <<>>, err |-> NoError]

\* ensureTransitionRules whose second loop does not index its rules
EnterEnsureTransitionRulesUnindexed(activeMap, nextMap) ==
    [fn |-> "ensureTransitionRules", args |-> <<activeMap, nextMap>>,
     pc |-> "AppendUnique",
     dnatRules |-> establishedRules(activeMap),
     loops |-> <<establishedRules(activeMap), activeRules(nextMap)>>,
     rest |-> <<>>, err |-> NoError]

\* the state of ensureTransitionRules(ipt, activeMap, nextMap) on entry
EnterEnsureTransitionRules(activeMap, nextMap) ==
    [fn |-> "ensureTransitionRules", args |-> <<activeMap, nextMap>>,
     pc |-> "AppendUnique",
     dnatRules |-> establishedRules(activeMap) \cup activeRules(nextMap),
     loops |-> <<establishedRules(activeMap), activeRules(nextMap)>>,
     rest |-> <<>>, err |-> NoError]

\* a port is reachable when a listening instance has it as its insecure port
Reachable(port) ==
    \E m \in up : insecurePort + (m.port - securePort) = port

(***************************************************************************)
(* Initial states: a manifest directory as the installer leaves it (the    *)
(* active manifest on any instance port, every later revision on the port  *)
(* the installer derives from it), instances running for all manifests or  *)
(* for all but the newest, and a chain that is absent or is as an earlier  *)
(* invocation left it.                                                     *)
(***************************************************************************)
\* the secure port the installer gives the instance it installs beside an
\* active instance on activePort
installerPort(activePort) ==
    IF activePort = securePort + 1 THEN securePort + 2 ELSE securePort + 1

Manifest(revision, activePort) ==
    [revision |-> revision,
     port |-> IF revision = 1 THEN activePort ELSE installerPort(activePort)]

ManifestDirs ==
    {{Manifest(r, a) : r \in 1..k} : k \in 0..MaxManifests, a \in InstancePorts}

Newest(dir) ==
    {m \in dir : \A y \in dir : y.revision <= m.revision}

RECURSIVE OrderRules(_)
OrderRules(rules) ==
    IF rules = {} THEN <<>>
    ELSE LET r == CHOOSE x \in rules : \A y \in rules : x.dport <= y.dport
         IN  <<r>> \o OrderRules(rules \ {r})

InitialChains ==
    {<<>>}
    \cup {OrderRules(activeRules(portMapForOffset(o))) : o \in 0..2}
    \cup {OrderRules(establishedRules(portMapForOffset(a - securePort)))
              \o OrderRules(activeRules(portMapForOffset(installerPort(a) - securePort)))
          : a \in InstancePorts}

InitHost ==
    /\ files \in ManifestDirs
    /\ up \in {files, files \ Newest(files)}
    /\ \/ /\ chainExists = FALSE
          /\ apiChain = <<>>
          /\ PREROUTING = <<hostRule>>
          /\ OUTPUT = <<hostRule>>
       \/ /\ chainExists = TRUE
          /\ apiChain \in InitialChains
          /\ PREROUTING = <<hostRule, jumpRule>>
          /\ OUTPUT = <<hostRule, jumpRule>>

InitProcs ==
    /\ pc = [p \in Procs |-> "idle"]
    /\ manifests = [p \in Procs |-> <<>>]
    /\ origErr = [p \in Procs |-> NoError]
    /\ ret = [p \in Procs |-> NoError]
    /\ fr = [p \in Procs |-> NoFrame]
    /\ klog = [p \in Procs |-> {}]
    /\ failed = [p \in Procs |-> {}]
    /\ log = [p \in Procs |-> <<>>]
    /\ probe = [p \in Procs |-> <<>>]

\* no invocation has ended before the first one
NoPass == [end |-> "none", removed |-> FALSE, established |-> FALSE, passes |-> 0]

\* the installer does not run
NoInstaller ==
    [pc |-> "idle", runs |-> 0, revision |-> 0, manifests |-> <<>>,
     rest |-> <<>>, portMap |-> <<>>, err |-> NoError]

\* the accessor has not been called
NoAccessor ==
    [pc |-> "idle", items |-> <<>>, pod |-> <<>>, err |-> <<>>]

\* the signer controller has not started
NoSigner ==
    [pc |-> "idle", now |-> 0, next |-> <<>>, target |-> <<>>, cm |-> <<>>,
     signingSecret |-> <<>>, newSecret |-> <<>>, certConfigMap |-> {},
     created |-> <<-1>>, creating |-> FALSE, checked |-> -1, err |-> <<>>]

\* the operator does not run
InitOperator ==
    /\ accessor = NoAccessor
    /\ signer = NoSigner

\* the port map calculator is not exercised
InitCalc ==
    /\ instancePort = securePort
    /\ portMaps = <<>>
    /\ rotation = <<>>

Init ==
    /\ InitHost
    /\ InitProcs
    /\ sched = {1}
    /\ prev = NoPass
    /\ InitCalc
    /\ installer = NoInstaller
    /\ InitOperator

(***************************************************************************)
(* iptables.go: the steps of ensureActiveRules and ensureTransitionRules,  *)
(* one call on the iptables handle each.                                   *)
(***************************************************************************)
\* the error of the call dropped: the reconciliation returns nil
ReturnErrorDropped(p, op) ==
    /\ fr' = [fr EXCEPT ![p].pc = "return"]
    /\ failed' = [failed EXCEPT ![p] = failed[p] \cup {Error(pc[p], op)}]

\* the call returns err
ReturnError(p, op) ==
    /\ fr' = [fr EXCEPT ![p].pc = "return", ![p].err = Error(pc[p], op)]
    /\ failed' = [failed EXCEPT ![p] = failed[p] \cup {Error(pc[p], op)}]

\* ipt.ChainExists("nat", apiChain)
ChainExists(p) ==
    /\ fr[p].pc = "ChainExists"
    /\ \E ok \in BOOLEAN :
         IF ok
         THEN /\ fr' = [fr EXCEPT ![p].pc =
                           IF chainExists THEN "AppendUniquePREROUTING"
                           ELSE "NewChain"]
              /\ UNCHANGED failed
         ELSE ReturnError(p, "ChainExists")
    /\ UNCHANGED <<hostVars, sched, pc, manifests, origErr, ret>>
    /\ UNCHANGED <<klog, log, probe>>
    /\ UNCHANGED <<prev, calcVars, installer, operatorVars>>

\* ipt.NewChain("nat", apiChain): fails when the chain exists already
NewChain(p) ==
    /\ fr[p].pc = "NewChain"
    /\ \E ok \in (IF chainExists THEN {FALSE} ELSE BOOLEAN) :
         IF ok
         THEN /\ chainExists' = TRUE
              /\ apiChain' = <<>>
              /\ fr' = [fr EXCEPT ![p].pc = "AppendUniquePREROUTING"]
              /\ UNCHANGED failed
         ELSE /\ ReturnError(p, "NewChain")
              /\ UNCHANGED <<chainExists, apiChain>>
    /\ UNCHANGED <<files, up, PREROUTING, OUTPUT>>
    /\ UNCHANGED <<sched, pc, manifests, origErr, ret>>
    /\ UNCHANGED <<klog, log, probe>>
    /\ UNCHANGED <<prev, calcVars, installer, operatorVars>>

\* ipt.AppendUnique("nat", "PREROUTING", jumpRule...)
AppendUniquePREROUTING(p) ==
    /\ fr[p].pc = "AppendUniquePREROUTING"
    /\ \E ok \in (IF chainExists THEN BOOLEAN ELSE {FALSE}) :
         IF ok
         THEN /\ PREROUTING' = AppendUnique(PREROUTING, jumpRule)
              /\ fr' = [fr EXCEPT ![p].pc = "AppendUniqueOUTPUT"]
              /\ UNCHANGED failed
         ELSE /\ ReturnError(p, "AppendUnique")
              /\ UNCHANGED PREROUTING
    /\ UNCHANGED <<files, up, chainExists, apiChain, OUTPUT>>
    /\ UNCHANGED <<sched, pc, manifests, origErr, ret>>
    /\ UNCHANGED <<klog, log, probe>>
    /\ UNCHANGED <<prev, calcVars, installer, operatorVars>>

\* ipt.AppendUnique("nat", "OUTPUT", jumpRule...)
AppendUniqueOUTPUT(p) ==
    /\ fr[p].pc = "AppendUniqueOUTPUT"
    /\ \E ok \in (IF chainExists THEN BOOLEAN ELSE {FALSE}) :
         IF ok
         THEN /\ OUTPUT' = AppendUnique(OUTPUT, jumpRule)
              /\ fr' = [fr EXCEPT ![p].pc = "AppendUnique"]
              /\ UNCHANGED failed
         ELSE /\ ReturnError(p, "AppendUnique")
              /\ UNCHANGED OUTPUT
    /\ UNCHANGED <<files, up, chainExists, apiChain, PREROUTING>>
    /\ UNCHANGED <<sched, pc, manifests, origErr, ret>>
    /\ UNCHANGED <<klog, log, probe>>
    /\ UNCHANGED <<prev, calcVars, installer, operatorVars>>

\* the loops left after the current one has handled the rule
LoopsAfter(loops, rule) ==
    IF Head(loops) = {rule} THEN Tail(loops)
    ELSE <<Head(loops) \ {rule}>> \o Tail(loops)

\* one iteration of a range over a port map (in any order):
\* ipt.AppendUnique("nat", apiChain, rule...)
AppendUniqueRule(p) ==
    /\ fr[p].pc = "AppendUnique"
    /\ \E rule \in Head(fr[p].loops) :
       \E ok \in (IF chainExists THEN BOOLEAN ELSE {FALSE}) :
         IF ok
         THEN /\ apiChain' = AppendUnique(apiChain, rule)
              /\ fr' = [fr EXCEPT
                          ![p].loops = LoopsAfter(fr[p].loops, rule),
                          ![p].pc = IF LoopsAfter(fr[p].loops, rule) = <<>>
                                    THEN "List" ELSE "AppendUnique"]
              /\ UNCHANGED failed
         ELSE /\ ReturnError(p, "AppendUnique")
              /\ UNCHANGED apiChain
    /\ UNCHANGED <<files, up, chainExists, PREROUTING, OUTPUT>>
    /\ UNCHANGED <<sched, pc, manifests, origErr, ret>>
    /\ UNCHANGED <<klog, log, probe>>
    /\ UNCHANGED <<prev, calcVars, installer, operatorVars>>

\* ipt.List("nat", apiChain), and the iterations of the deletion loop that
\* skip a desired rule
List(p) ==
    /\ fr[p].pc = "List"
    /\ \E ok \in (IF chainExists THEN BOOLEAN ELSE {FALSE}) :
         IF ok
         THEN /\ fr' = [fr EXCEPT
                          ![p].rest = extraRules(apiChain, fr[p].dnatRules),
                          ![p].pc = IF extraRules(apiChain, fr[p].dnatRules) = <<>>
                                    THEN "return" ELSE "Delete"]
              /\ UNCHANGED failed
         ELSE ReturnError(p, "List")
    /\ UNCHANGED <<hostVars, sched, pc, manifests, origErr, ret>>
    /\ UNCHANGED <<klog, log, probe>>
    /\ UNCHANGED <<prev, calcVars, installer, operatorVars>>

\* ipt.Delete("nat", apiChain, chainRule): fails when the chain has no such
\* rule
Delete(p) ==
    /\ fr[p].pc = "Delete"
    /\ LET chainRule == Head(fr[p].rest) IN
       \E ok \in (IF chainExists /\ chainRule \in Range(apiChain)
                  THEN BOOLEAN ELSE {FALSE}) :
         IF ok
         THEN /\ apiChain' = DeleteRule(apiChain, chainRule)
              /\ fr' = [fr EXCEPT
                          ![p].rest = Tail(fr[p].rest),
                          ![p].pc = IF Tail(fr[p].rest) = <<>>
                                    THEN "return" ELSE "Delete"]
              /\ UNCHANGED failed
         ELSE /\ ReturnError(p, "Delete")
              /\ UNCHANGED apiChain
    /\ UNCHANGED <<files, up, chainExists, PREROUTING, OUTPUT>>
    /\ UNCHANGED <<sched, pc, manifests, origErr, ret>>
    /\ UNCHANGED <<klog, log, probe>>
    /\ UNCHANGED <<prev, calcVars, installer, operatorVars>>

(***************************************************************************)
(* cmd.go: gracefulRollout.                                                *)
(***************************************************************************)
\* taking the manifest of the highest revision for the active one
newestManifest(p) == manifests[p][Len(manifests[p])]

activeManifest(p) == ActiveManifest(manifests[p])

activeMap(p) == activePortMap(activeManifest(p).port)

nextMap(p) == NextPortMap(activeManifest(p).port)

\* return err from gracefulRollout
Return(p, err) ==
    /\ pc' = [pc EXCEPT ![p] = "done"]
    /\ ret' = [ret EXCEPT ![p] = err]

\* what the invocation has completed, for the history
Reconciled == <<"rules", Range(apiChain)>>

\* the external scheduler runs the command
Invoke(p) ==
    /\ p \in sched
    /\ pc[p] = "idle"
    /\ sched' = sched \ {p}
    /\ pc' = [pc EXCEPT ![p] = "ReadStaticPodManifests"]
    /\ manifests' = [manifests EXCEPT ![p] = <<>>]
    /\ origErr' = [origErr EXCEPT ![p] = NoError]
    /\ ret' = [ret EXCEPT ![p] = NoError]
    /\ klog' = [klog EXCEPT ![p] = {}]
    /\ failed' = [failed EXCEPT ![p] = {}]
    /\ log' = [log EXCEPT ![p] = <<>>]
    /\ probe' = [probe EXCEPT ![p] = <<>>]
    /\ UNCHANGED <<hostVars, fr>>
    /\ UNCHANGED <<prev, calcVars, installer, operatorVars>>

\* case 0 of the switch returning an error
NoManifestsIsError(p) ==
    Return(p, Error("ReadStaticPodManifests", "len(manifests)"))

\* case 0 of the switch on len(manifests): return nil
NoManifests(p) ==
    Return(p, NoError)

\* the error of the scan dropped: the pass returns nil
ScanFailedReturnsNil(p) ==
    Return(p, NoError)

\* if err != nil { return err } after ReadStaticPodManifests
ScanFailed(p) ==
    Return(p, Error("ReadStaticPodManifests", "ReadStaticPodManifests"))

\* ReadStaticPodManifests and the switch on len(manifests)
ReadStaticPodManifests(p) ==
    /\ pc[p] = "ReadStaticPodManifests"
    /\ \E ok \in BOOLEAN :
         IF ok
         THEN LET found == StaticPodManifests(files) IN
              /\ manifests' = [manifests EXCEPT ![p] = found]
              /\ IF Len(found) = 0
                 THEN NoManifests(p)
                 ELSE /\ pc' = [pc EXCEPT ![p] = "iptablesNew"]
                      /\ UNCHANGED ret
              /\ klog' = [klog EXCEPT ![p] =
                            IF Len(found) > 2
                            THEN {<<"Warningf", "Graceful transition only possible for 2 pods">>}
                            ELSE {}]
              /\ UNCHANGED failed
         ELSE /\ ScanFailed(p)
              /\ failed' = [failed EXCEPT ![p] = failed[p] \cup {Error("ReadStaticPodManifests", "ReadStaticPodManifests")}]
              /\ UNCHANGED <<manifests, klog>>
    /\ UNCHANGED <<hostVars, sched, origErr, fr, log, probe>>
    /\ UNCHANGED <<prev, calcVars, installer, operatorVars>>

\* iptables.New() and the call of ensureActiveRules(ipt, activeMap)
IptablesNew(p) ==
    /\ pc[p] = "iptablesNew"
    /\ \E ok \in BOOLEAN :
         IF ok
         THEN /\ pc' = [pc EXCEPT ![p] = "ensureActive"]
              /\ fr' = [fr EXCEPT ![p] = EnterEnsureActiveRules(activeMap(p))]
              /\ UNCHANGED <<ret, failed>>
         ELSE /\ Return(p, Error("iptablesNew", "New"))
              /\ failed' = [failed EXCEPT ![p] = failed[p] \cup {Error("iptablesNew", "New")}]
              /\ UNCHANGED fr
    /\ UNCHANGED <<hostVars, sched, manifests, origErr, klog, log, probe>>
    /\ UNCHANGED <<prev, calcVars, installer, operatorVars>>

\* ensureActiveRules(ipt, activeMap) has returned
EnsuredActive(p) ==
    /\ pc[p] = "ensureActive"
    /\ fr[p].pc = "return"
    /\ fr' = [fr EXCEPT ![p] = NoFrame]
    /\ IF fr[p].err # NoError
       THEN /\ Return(p, fr[p].err)
            /\ UNCHANGED log
       ELSE /\ log' = [log EXCEPT ![p] = Append(log[p], Reconciled)]
            /\ IF Len(manifests[p]) = 1
               THEN Return(p, NoError)
               ELSE /\ pc' = [pc EXCEPT ![p] = "waitNext"]
                    /\ UNCHANGED ret
    /\ UNCHANGED <<hostVars, sched, manifests, origErr, klog, failed, probe>>
    /\ UNCHANGED <<prev, calcVars, installer, operatorVars>>

\* waitForConnRefused(port): returns nil without a health check, so the
\* error branches of its two callers are never taken
waitForConnRefused(p, port) ==
    /\ log' = [log EXCEPT ![p] = Append(log[p], <<"wait", port>>)]
    /\ probe' = [probe EXCEPT ![p] = Append(probe[p], <<port, Reachable(port)>>)]

\* waitForConnRefused(nextInsecurePort) and the call of
\* ensureTransitionRules(ipt, activeMap, nextMap)
WaitNext(p) ==
    /\ pc[p] = "waitNext"
    /\ waitForConnRefused(p, nextMap(p)[insecurePort])
    /\ pc' = [pc EXCEPT ![p] = "ensureTransition"]
    /\ fr' = [fr EXCEPT ![p] = EnterEnsureTransitionRules(activeMap(p), nextMap(p))]
    /\ UNCHANGED <<hostVars, sched, manifests, origErr, ret, klog, failed>>
    /\ UNCHANGED <<prev, calcVars, installer, operatorVars>>

\* ensureTransitionRules has returned: on an error, clean up with
\* ensureActiveRules(ipt, activeMap)
EnsuredTransition(p) ==
    /\ pc[p] = "ensureTransition"
    /\ fr[p].pc = "return"
    /\ IF fr[p].err # NoError
       THEN /\ origErr' = [origErr EXCEPT ![p] = fr[p].err]
            /\ pc' = [pc EXCEPT ![p] = "cleanup"]
            /\ fr' = [fr EXCEPT ![p] = EnterEnsureActiveRules(activeMap(p))]
            /\ UNCHANGED log
       ELSE /\ log' = [log EXCEPT ![p] = Append(log[p], Reconciled)]
            /\ pc' = [pc EXCEPT ![p] = "osRemove"]
            /\ fr' = [fr EXCEPT ![p] = NoFrame]
            /\ UNCHANGED origErr
    /\ UNCHANGED <<hostVars, sched, manifests, ret, klog, failed, probe>>
    /\ UNCHANGED <<prev, calcVars, installer, operatorVars>>

\* os.Remove(activeManifest.Filename): on an error, clean up with
\* ensureActiveRules(ipt, activeMap)
OsRemove(p) ==
    /\ pc[p] = "osRemove"
    /\ \E ok \in (IF activeManifest(p) \in files THEN BOOLEAN ELSE {FALSE}) :
         IF ok
         THEN /\ files' = files \ {activeManifest(p)}
              /\ log' = [log EXCEPT ![p] =
                           Append(log[p], <<"remove", activeManifest(p).revision>>)]
              /\ pc' = [pc EXCEPT ![p] = "waitDrain"]
              /\ UNCHANGED <<origErr, fr, failed>>
         ELSE /\ origErr' = [origErr EXCEPT ![p] = Error("osRemove", "Remove")]
              /\ failed' = [failed EXCEPT ![p] = failed[p] \cup {Error("osRemove", "Remove")}]
              /\ pc' = [pc EXCEPT ![p] = "cleanup"]
              /\ fr' = [fr EXCEPT ![p] = EnterEnsureActiveRules(activeMap(p))]
              /\ UNCHANGED <<files, log>>
    /\ UNCHANGED <<up, chainExists, apiChain, PREROUTING, OUTPUT>>
    /\ UNCHANGED <<sched, manifests, ret, klog, probe>>
    /\ UNCHANGED <<prev, calcVars, installer, operatorVars>>

\* cleanup branches that return the error of the cleanup alone
CleanupResultOfCleanup(err, cleanupErr) ==
    cleanupErr

\* the error the cleanup branches return: err is shadowed by the error of
\* the cleanup inside the if statement
CleanupResult(err, cleanupErr) ==
    IF cleanupErr # NoError THEN cleanupErr ELSE err

\* the cleanup ensureActiveRules(ipt, activeMap) has returned
CleanedUp(p) ==
    /\ pc[p] = "cleanup"
    /\ fr[p].pc = "return"
    /\ fr' = [fr EXCEPT ![p] = NoFrame]
    /\ klog' = [klog EXCEPT ![p] =
                  IF fr[p].err # NoError
                  THEN klog[p] \cup {<<"Errorf", fr[p].err>>}
                  ELSE klog[p]]
    /\ log' = [log EXCEPT ![p] =
                 IF fr[p].err = NoError THEN Append(log[p], Reconciled)
                 ELSE log[p]]
    /\ Return(p, CleanupResult(origErr[p], fr[p].err))
    /\ UNCHANGED <<hostVars, sched, manifests, origErr, failed, probe>>
    /\ UNCHANGED <<prev, calcVars, installer, operatorVars>>

\* waitForConnRefused(activeInsecurePort) and the call of
\* ensureActiveRules(ipt, nextMap)
WaitDrain(p) ==
    /\ pc[p] = "waitDrain"
    /\ waitForConnRefused(p, activeMap(p)[insecurePort])
    /\ pc' = [pc EXCEPT ![p] = "finalize"]
    /\ fr' = [fr EXCEPT ![p] = EnterEnsureActiveRules(nextMap(p))]
    /\ UNCHANGED <<hostVars, sched, manifests, origErr, ret, klog, failed>>
    /\ UNCHANGED <<prev, calcVars, installer, operatorVars>>

\* return ensureActiveRules(ipt, nextMap)
Finalized(p) ==
    /\ pc[p] = "finalize"
    /\ fr[p].pc = "return"
    /\ fr' = [fr EXCEPT ![p] = NoFrame]
    /\ log' = [log EXCEPT ![p] =
                 IF fr[p].err = NoError THEN Append(log[p], Reconciled)
                 ELSE log[p]]
    /\ Return(p, fr[p].err)
    /\ UNCHANGED <<hostVars, sched, manifests, origErr, klog, failed, probe>>
    /\ UNCHANGED <<prev, calcVars, installer, operatorVars>>

(***************************************************************************)
(* The host: the kubelet starts the instance of a manifest and stops the   *)
(* instance of a removed manifest.                                         *)
(***************************************************************************)
StartInstance ==
    /\ \E m \in files \ up : up' = up \cup {m}
    /\ UNCHANGED <<files, chainExists, apiChain, PREROUTING, OUTPUT>>
    /\ UNCHANGED <<procVars, histVars>>
    /\ UNCHANGED <<prev, calcVars, installer, operatorVars>>

StopInstance ==
    /\ \E m \in up \ files : up' = up \ {m}
    /\ UNCHANGED <<files, chainExists, apiChain, PREROUTING, OUTPUT>>
    /\ UNCHANGED <<procVars, histVars>>
    /\ UNCHANGED <<prev, calcVars, installer, operatorVars>>

Next ==
    \/ \E p \in Procs : Invoke(p)
    \/ \E p \in Procs : ReadStaticPodManifests(p)
    \/ \E p \in Procs : IptablesNew(p)
    \/ \E p \in Procs : EnsuredActive(p)
    \/ \E p \in Procs : WaitNext(p)
    \/ \E p \in Procs : EnsuredTransition(p)
    \/ \E p \in Procs : OsRemove(p)
    \/ \E p \in Procs : CleanedUp(p)
    \/ \E p \in Procs : WaitDrain(p)
    \/ \E p \in Procs : Finalized(p)
    \/ \E p \in Procs : ChainExists(p)
    \/ \E p \in Procs : NewChain(p)
    \/ \E p \in Procs : AppendUniquePREROUTING(p)
    \/ \E p \in Procs : AppendUniqueOUTPUT(p)
    \/ \E p \in Procs : AppendUniqueRule(p)
    \/ \E p \in Procs : List(p)
    \/ \E p \in Procs : Delete(p)
    \/ StartInstance
    \/ StopInstance

Spec == Init /\ [][Next]_vars

(***************************************************************************)
(* Crashes and retries: the process of a pass can die between any two of   *)
(* its calls, and the external scheduler runs the command again after a    *)
(* pass that crashed or returned an error.  The directory starts with the  *)
(* two manifests of a rollout and the instances of both running.  Calls    *)
(* fail and processes die in the first MaxRetries passes only.  How the    *)
(* pass before ended, and the number of passes that ended so, is kept in   *)
(* prev.                                                                   *)
(***************************************************************************)
InitRetry ==
    /\ InitHost
    /\ Cardinality(files) = 2
    /\ up = files
    /\ InitProcs
    /\ sched = {1}
    /\ prev = NoPass
    /\ InitCalc
    /\ installer = NoInstaller
    /\ InitOperator

\* what is left of a pass that ended: whether it had removed the manifest
\* and whether the chain has an established-scoped rule
PassEnd(p, end) ==
    [end |-> end,
     removed |-> \E i \in 1..Len(log[p]) : log[p][i][1] = "remove",
     established |-> \E i \in 1..Len(apiChain) :
                        apiChain[i].state = "ESTABLISHED,RELATED",
     passes |-> prev.passes + 1]

\* the state of the process of invocation p is gone
Exit(p) ==
    /\ manifests' = [manifests EXCEPT ![p] = <<>>]
    /\ origErr' = [origErr EXCEPT ![p] = NoError]
    /\ ret' = [ret EXCEPT ![p] = NoError]
    /\ fr' = [fr EXCEPT ![p] = NoFrame]
    /\ klog' = [klog EXCEPT ![p] = {}]
    /\ failed' = [failed EXCEPT ![p] = {}]
    /\ log' = [log EXCEPT ![p] = <<>>]
    /\ probe' = [probe EXCEPT ![p] = <<>>]

\* a call fails
FailStep ==
    \E p \in Procs : ~(failed'[p] \subseteq failed[p])

\* calls fail while the passes in which they can are not used up
FailAllowed ==
    FailStep => prev.passes < MaxRetries

\* the process of the pass dies
Crash(p) ==
    /\ pc[p] \notin {"idle", "done", "crashed"}
    /\ prev.passes < MaxRetries
    /\ pc' = [pc EXCEPT ![p] = "crashed"]
    /\ prev' = PassEnd(p, "crashed")
    /\ Exit(p)
    /\ UNCHANGED <<hostVars, sched, calcVars, installer, operatorVars>>

\* the external scheduler runs the command again
Reinvoke(p) ==
    /\ \/ /\ pc[p] = "crashed"
          /\ UNCHANGED prev
       \/ /\ pc[p] = "done"
          /\ ret[p] # NoError
          /\ prev' = PassEnd(p, "failed")
    /\ pc' = [pc EXCEPT ![p] = "ReadStaticPodManifests"]
    /\ Exit(p)
    /\ UNCHANGED <<hostVars, sched, calcVars, installer, operatorVars>>

NextRetry ==
    \/ \E p \in Procs : Invoke(p)
    \/ \E p \in Procs : ReadStaticPodManifests(p) /\ FailAllowed
    \/ \E p \in Procs : IptablesNew(p) /\ FailAllowed
    \/ \E p \in Procs : EnsuredActive(p)
    \/ \E p \in Procs : WaitNext(p)
    \/ \E p \in Procs : EnsuredTransition(p)
    \/ \E p \in Procs : OsRemove(p) /\ FailAllowed
    \/ \E p \in Procs : CleanedUp(p)
    \/ \E p \in Procs : WaitDrain(p)
    \/ \E p \in Procs : Finalized(p)
    \/ \E p \in Procs : ChainExists(p) /\ FailAllowed
    \/ \E p \in Procs : NewChain(p) /\ FailAllowed
    \/ \E p \in Procs : AppendUniquePREROUTING(p) /\ FailAllowed
    \/ \E p \in Procs : AppendUniqueOUTPUT(p) /\ FailAllowed
    \/ \E p \in Procs : AppendUniqueRule(p) /\ FailAllowed
    \/ \E p \in Procs : List(p) /\ FailAllowed
    \/ \E p \in Procs : Delete(p) /\ FailAllowed
    \/ \E p \in Procs : Crash(p)
    \/ \E p \in Procs : Reinvoke(p)

SpecRetry == InitRetry /\ [][NextRetry]_vars

\* the rollout from an active instance on 6444 to the next one on 6445
InitRetryLive ==
    /\ InitRetry
    /\ \E m \in files : m.revision = 1 /\ m.port = securePort + 1

\* a pass that is running takes its next step, and a pass that crashed or
\* returned an error is run again
SpecRetryLive == InitRetryLive /\ [][NextRetry]_vars /\ WF_vars(NextRetry)

(***************************************************************************)
(* The reconcilers on their own: one call of ensureActiveRules or of       *)
(* ensureTransitionRules, with any port maps of the rotation, on a chain   *)
(* that is absent, is as an earlier invocation left it, or holds up to     *)
(* MaxStale arbitrary rules of the kinds the monitor installs.  A call     *)
(* that returned nil is followed at once by the call gracefulRollout makes *)
(* next on the same handle: ensureActiveRules of the same port map after   *)
(* ensureActiveRules (the pass run again), ensureActiveRules(nextMap)      *)
(* after ensureTransitionRules(activeMap, nextMap).  The chain the first   *)
(* call started with and the rules it left are kept in the history.        *)
(***************************************************************************)
AllPortMaps == {portMapForOffset(o) : o \in 0..2}

AllRules ==
    UNION {{dnatRule(t, pm[t]), establishedDNATRule(t, pm[t])} :
              t \in CanonicalPorts, pm \in AllPortMaps}

StaleChains ==
    {OrderRules(S) : S \in {T \in SUBSET AllRules : Cardinality(T) <= MaxStale}}

ReconcilerCalls ==
    {EnterEnsureActiveRules(pm) : pm \in AllPortMaps}
    \cup {EnterEnsureTransitionRules(a, n) : a \in AllPortMaps, n \in AllPortMaps}

InitReconciler ==
    /\ files = {}
    /\ up = {}
    /\ \/ /\ chainExists = FALSE
          /\ apiChain = <<>>
          /\ PREROUTING = <<hostRule>>
          /\ OUTPUT = <<hostRule>>
       \/ /\ chainExists = TRUE
          /\ apiChain \in InitialChains \cup StaleChains
          /\ PREROUTING = <<hostRule, jumpRule>>
          /\ OUTPUT = <<hostRule, jumpRule>>
    /\ sched = {}
    /\ pc = [p \in Procs |-> IF p = 1 THEN "reconcile" ELSE "idle"]
    /\ manifests = [p \in Procs |-> <<>>]
    /\ origErr = [p \in Procs |-> NoError]
    /\ ret = [p \in Procs |-> NoError]
    /\ \E call \in ReconcilerCalls :
           fr = [p \in Procs |-> IF p = 1 THEN call ELSE NoFrame]
    /\ klog = [p \in Procs |-> {}]
    /\ failed = [p \in Procs |-> {}]
    /\ log = [p \in Procs |-> IF p = 1 THEN << <<"before", apiChain>> >> ELSE <<>>]
    /\ probe = [p \in Procs |-> <<>>]
    /\ prev = NoPass
    /\ InitCalc
    /\ installer = NoInstaller
    /\ InitOperator

\* the rules of the nat table that the monitor writes
Firewall == <<chainExists, apiChain, PREROUTING, OUTPUT>>

\* the call that follows a call that returned nil
CallNext(p) ==
    /\ pc[p] = "reconcile"
    /\ fr[p].pc = "return"
    /\ fr[p].err = NoError
    /\ Len(log[p]) = 1
    /\ log' = [log EXCEPT ![p] =
                 Append(log[p], <<"then", fr[p].fn, fr[p].args, Firewall>>)]
    /\ fr' = [fr EXCEPT ![p] =
                EnterEnsureActiveRules(fr[p].args[Len(fr[p].args)])]
    /\ UNCHANGED <<hostVars, sched, pc, manifests, origErr, ret>>
    /\ UNCHANGED <<klog, failed, probe, prev, calcVars, installer, operatorVars>>

NextReconciler ==
    \/ \E p \in Procs : CallNext(p)
    \/ \E p \in Procs : ChainExists(p)
    \/ \E p \in Procs : NewChain(p)
    \/ \E p \in Procs : AppendUniquePREROUTING(p)
    \/ \E p \in Procs : AppendUniqueOUTPUT(p)
    \/ \E p \in Procs : AppendUniqueRule(p)
    \/ \E p \in Procs : List(p)
    \/ \E p \in Procs : Delete(p)

SpecReconciler == InitReconciler /\ [][NextReconciler]_vars

(***************************************************************************)
(* The port map calculator on its own: activePortMap and NextPortMap are   *)
(* applied to an active port, as gracefulRollout applies them to the port  *)
(* of the active manifest, and the instance of the next map becomes the    *)
(* active one, as the rollout makes it.  The first active port is any port *)
(* number, 0 standing for no active instance.                              *)
(***************************************************************************)
InitPortMap ==
    /\ files = {}
    /\ up = {}
    /\ chainExists = FALSE
    /\ apiChain = <<>>
    /\ PREROUTING = <<hostRule>>
    /\ OUTPUT = <<hostRule>>
    /\ sched = {}
    /\ InitProcs
    /\ prev = NoPass
    /\ instancePort \in 0..65535
    /\ portMaps = <<>>
    /\ rotation = <<instancePort>>
    /\ installer = NoInstaller
    /\ InitOperator

\* activeMap := activePortMap(activeManifest.Port) and
\* nextMap := NextPortMap(activeManifest.Port), and the activeMap of the pass
\* that finds the instance of nextMap active
PortMaps ==
    /\ portMaps = <<>>
    /\ portMaps' = <<activePortMap(instancePort), NextPortMap(instancePort),
                     activePortMap(NextPortMap(instancePort)[securePort])>>
    /\ UNCHANGED <<instancePort, rotation>>
    /\ UNCHANGED <<hostVars, procVars, histVars, prev, installer, operatorVars>>

\* the instance on the secure port of the next map becomes the active one
Rotate ==
    /\ portMaps # <<>>
    /\ Len(rotation) <= MaxRotations
    /\ instancePort' = portMaps[2][securePort]
    /\ rotation' = Append(rotation, portMaps[2][securePort])
    /\ portMaps' = <<>>
    /\ UNCHANGED <<hostVars, procVars, histVars, prev, installer, operatorVars>>

NextPortMapCalc ==
    \/ PortMaps
    \/ Rotate

SpecPortMap == InitPortMap /\ [][NextPortMapCalc]_vars

(***************************************************************************)
(* part_002: the initialization function NewInstallerCommand gives the     *)
(* installer, and the installation that follows it.  A run installs        *)
(* revision o.Revision, higher than every revision installed before.  The  *)
(* installation writes the manifest of the pod, with the ports of the      *)
(* content replaced after portMap: the instance it declares has the secure *)
(* port portMap[6443].                                                     *)
(***************************************************************************)
installerVars == <<up, chainExists, apiChain, PREROUTING, OUTPUT,
                   procVars, histVars, prev, calcVars, operatorVars>>

\* the operator starts the installer for the next revision
InstallerRun ==
    /\ installer.pc \in {"idle", "done"}
    /\ installer.runs < MaxInstalls
    /\ installer' = [pc |-> "ReadStaticPodManifests",
                     runs |-> installer.runs + 1,
                     revision |-> installer.revision + 1,
                     manifests |-> <<>>, rest |-> <<>>, portMap |-> <<>>,
                     err |-> NoError]
    /\ UNCHANGED <<files, installerVars>>

\* the loop over the manifests that keeps them all
pruneNone(found) ==
    <<>>

\* the loop over the manifests skips the active manifest
pruneAllButActive(found) ==
    IF found = <<>> THEN <<>>
    ELSE SelectSeq(found, LAMBDA m : m # ActiveManifest(found))

\* manifests, err := ReadStaticPodManifests(...) and
\* activeManifest := manifests.ActiveManifest()
InstallerReadStaticPodManifests ==
    /\ installer.pc = "ReadStaticPodManifests"
    /\ \E ok \in BOOLEAN :
         IF ok
         THEN LET found == StaticPodManifests(files) IN
              installer' = [installer EXCEPT
                              !.manifests = found,
                              !.rest = pruneAllButActive(found),
                              !.pc = IF pruneAllButActive(found) = <<>>
                                     THEN "portMap" ELSE "osRemove"]
         ELSE installer' = [installer EXCEPT
                              !.pc = "done",
                              !.err = Error("ReadStaticPodManifests", "ReadStaticPodManifests")]
    /\ UNCHANGED <<files, installerVars>>

\* os.Remove(manifest.Filename) in the loop: fails when the file is gone
InstallerOsRemove ==
    /\ installer.pc = "osRemove"
    /\ LET manifest == Head(installer.rest) IN
       \E ok \in (IF manifest \in files THEN BOOLEAN ELSE {FALSE}) :
         IF ok
         THEN /\ files' = files \ {manifest}
              /\ installer' = [installer EXCEPT
                                 !.rest = Tail(installer.rest),
                                 !.pc = IF Tail(installer.rest) = <<>>
                                        THEN "portMap" ELSE "osRemove"]
         ELSE /\ installer' = [installer EXCEPT
                                 !.pc = "done",
                                 !.err = Error("osRemove", "Remove")]
              /\ UNCHANGED files
    /\ UNCHANGED installerVars

\* the port map of the instance with every port unchanged
installerPortMapCanonical(found) ==
    portMapForOffset(0)

\* activePort := 0, or activeManifest.Port, and
\* portMap := gracefulmonitor.NextPortMap(activePort)
installerPortMap(found) ==
    NextPortMap(IF found = <<>> THEN 0 ELSE ActiveManifest(found).port)

InstallerPortMap ==
    /\ installer.pc = "portMap"
    /\ installer' = [installer EXCEPT
                       !.portMap = installerPortMap(installer.manifests),
                       !.pc = "install"]
    /\ UNCHANGED <<files, installerVars>>

\* the installation writes the manifest of the revision, or fails
InstallerInstall ==
    /\ installer.pc = "install"
    /\ \E ok \in BOOLEAN :
         IF ok
         THEN /\ files' = files \cup {[revision |-> installer.revision,
                                       port |-> installer.portMap[securePort]]}
              /\ installer' = [installer EXCEPT !.pc = "done"]
         ELSE /\ installer' = [installer EXCEPT
                                 !.pc = "done",
                                 !.err = Error("install", "install")]
              /\ UNCHANGED files
    /\ UNCHANGED installerVars

\* the highest revision of a directory
LastRevision(dir) ==
    IF dir = {} THEN 0
    ELSE CHOOSE r \in {m.revision : m \in dir} : \A m \in dir : m.revision <= r

\* the installer on its own, on any directory of the model
InitInstaller ==
    /\ InitHost
    /\ InitProcs
    /\ sched = {}
    /\ prev = NoPass
    /\ InitCalc
    /\ installer = [NoInstaller EXCEPT !.revision = LastRevision(files)]
    /\ InitOperator

NextInstaller ==
    \/ InstallerRun
    \/ InstallerReadStaticPodManifests
    \/ InstallerOsRemove
    \/ InstallerPortMap
    \/ InstallerInstall

SpecInstaller == InitInstaller /\ [][NextInstaller]_vars

(***************************************************************************)
(* Installer and monitor on one node: the operator runs the installer for  *)
(* one revision after the other, and the external scheduler runs the       *)
(* monitor's pass again and again, one pass at a time; the steps of the    *)
(* installer and of the pass interleave.  The node starts with no manifest *)
(* or with the manifest of one instance.  The calls of the pass do not     *)
(* fail here.                                                              *)
(***************************************************************************)
InitRollout ==
    /\ InitHost
    /\ Cardinality(files) <= 1
    /\ up = files
    /\ InitProcs
    /\ sched = {1}
    /\ prev = NoPass
    /\ InitCalc
    /\ installer = [NoInstaller EXCEPT !.revision = LastRevision(files)]
    /\ InitOperator

\* the external scheduler is to run the command again
Schedule(p) ==
    /\ pc[p] = "done"
    /\ pc' = [pc EXCEPT ![p] = "idle"]
    /\ sched' = sched \cup {p}
    /\ Exit(p)
    /\ UNCHANGED <<hostVars, prev, calcVars, installer, operatorVars>>

NextRollout ==
    \/ \E p \in Procs : Invoke(p)
    \/ \E p \in Procs : ReadStaticPodManifests(p) /\ ~FailStep
    \/ \E p \in Procs : IptablesNew(p) /\ ~FailStep
    \/ \E p \in Procs : EnsuredActive(p)
    \/ \E p \in Procs : WaitNext(p)
    \/ \E p \in Procs : EnsuredTransition(p)
    \/ \E p \in Procs : OsRemove(p) /\ ~FailStep
    \/ \E p \in Procs : WaitDrain(p)
    \/ \E p \in Procs : Finalized(p)
    \/ \E p \in Procs : ChainExists(p) /\ ~FailStep
    \/ \E p \in Procs : NewChain(p) /\ ~FailStep
    \/ \E p \in Procs : AppendUniquePREROUTING(p) /\ ~FailStep
    \/ \E p \in Procs : AppendUniqueOUTPUT(p) /\ ~FailStep
    \/ \E p \in Procs : AppendUniqueRule(p) /\ ~FailStep
    \/ \E p \in Procs : List(p) /\ ~FailStep
    \/ \E p \in Procs : Delete(p) /\ ~FailStep
    \/ \E p \in Procs : Schedule(p)
    \/ InstallerRun
    \/ InstallerReadStaticPodManifests
    \/ InstallerOsRemove
    \/ InstallerPortMap
    \/ InstallerInstall

SpecRollout == InitRollout /\ [][NextRollout]_vars

(***************************************************************************)
(* Two invocations of the monitor on one node.  The node was in a steady   *)
(* state (one manifest, the chain holding the unconditional rules of its   *)
(* instance) when a pass scanned the directory, and the installer has      *)
(* installed the next revision since: the pass has found the one manifest, *)
(* the directory holds two.  The external scheduler runs the command a     *)
(* second time without regard to the pass that may still be running, and   *)
(* the calls of the two passes interleave.  The calls do not fail here.    *)
(* Whether the first pass was still running when the second was started is *)
(* kept in prev.                                                           *)
(***************************************************************************)
InitRace ==
    /\ InitHost
    /\ Cardinality(files) = 2
    /\ up = files
    /\ chainExists
    /\ \E m \in files :
          /\ m.revision = 1
          /\ apiChain = OrderRules(activeRules(activePortMap(m.port)))
          /\ manifests = [p \in Procs |-> IF p = 1 THEN <<m>> ELSE <<>>]
    /\ pc = [p \in Procs |-> IF p = 1 THEN "iptablesNew" ELSE "idle"]
    /\ sched = Procs \ {1}
    /\ origErr = [p \in Procs |-> NoError]
    /\ ret = [p \in Procs |-> NoError]
    /\ fr = [p \in Procs |-> NoFrame]
    /\ klog = [p \in Procs |-> {}]
    /\ failed = [p \in Procs |-> {}]
    /\ log = [p \in Procs |-> <<>>]
    /\ probe = [p \in Procs |-> <<>>]
    /\ prev = NoPass
    /\ InitCalc
    /\ installer = NoInstaller
    /\ InitOperator

\* the external scheduler runs the command a second time
InvokeBeside(p) ==
    /\ p \in sched
    /\ pc[p] = "idle"
    /\ sched' = sched \ {p}
    /\ pc' = [pc EXCEPT ![p] = "ReadStaticPodManifests"]
    /\ prev' = [prev EXCEPT !.end =
                   IF \E q \in Procs \ {p} : pc[q] # "done"
                   THEN "running" ELSE "done"]
    /\ UNCHANGED <<hostVars, manifests, origErr, ret, fr, histVars>>
    /\ UNCHANGED <<calcVars, installer, operatorVars>>

NextRace ==
    \/ \E p \in Procs : InvokeBeside(p)
    \/ \E p \in Procs : ReadStaticPodManifests(p) /\ ~FailStep
    \/ \E p \in Procs : IptablesNew(p) /\ ~FailStep
    \/ \E p \in Procs : EnsuredActive(p)
    \/ \E p \in Procs : WaitNext(p)
    \/ \E p \in Procs : EnsuredTransition(p)
    \/ \E p \in Procs : OsRemove(p) /\ ~FailStep
    \/ \E p \in Procs : WaitDrain(p)
    \/ \E p \in Procs : Finalized(p)
    \/ \E p \in Procs : ChainExists(p) /\ ~FailStep
    \/ \E p \in Procs : AppendUniquePREROUTING(p) /\ ~FailStep
    \/ \E p \in Procs : AppendUniqueOUTPUT(p) /\ ~FailStep
    \/ \E p \in Procs : AppendUniqueRule(p) /\ ~FailStep
    \/ \E p \in Procs : List(p) /\ ~FailStep
    \/ \E p \in Procs : Delete(p) /\ ~FailStep

SpecRace == InitRace /\ [][NextRace]_vars

(***************************************************************************)
(* part_000: getStaticPodForGraceful, the static pod accessor RunOperator  *)
(* gives the static pod controllers.  A pod name is the sequence of its    *)
(* parts and a revision label the sequence of its characters, so that      *)
(* strings.HasPrefix and strconv.Atoi are computed.  The pod variable of   *)
(* the range loop whose address the function keeps is one variable for the *)
(* whole loop or a new one in every iteration, as the Go version of the    *)
(* build has it: with one variable the pointer returned sees the last pod  *)
(* the loop assigned.                                                      *)
(***************************************************************************)
staticPodPrefix == <<"kube-apiserver">>

PodNames == {<<"kube-apiserver", "-pod">>, <<"etcd", "-pod">>}

NodeNames == {"node-a", "node-b"}

LabelChars == {"0", "1", "a"}

RevisionLabels == UNION {[1..n -> LabelChars] : n \in 0..2}

Pods ==
    [name : PodNames, nodeName : NodeNames, apiserver : {"true", "false"},
     revision : RevisionLabels]

\* strings.HasPrefix(s, prefix)
HasPrefix(s, prefix) ==
    /\ Len(s) >= Len(prefix)
    /\ SubSeq(s, 1, Len(prefix)) = prefix

\* the value of a sequence of decimal digits
RECURSIVE Decimal(_)
Decimal(s) ==
    IF s = <<>> THEN 0
    ELSE 10 * Decimal(SubSeq(s, 1, Len(s) - 1))
         + (CASE s[Len(s)] = "0" -> 0 [] s[Len(s)] = "1" -> 1 [] OTHER -> 2)

\* strconv.Atoi(s), for unsigned s
Atoi(s) ==
    IF s = <<>> \/ \E i \in 1..Len(s) : s[i] \notin {"0", "1", "2"}
    THEN [err |-> Error("getStaticPodForGraceful", "Atoi"), n |-> 0]
    ELSE [err |-> NoError, n |-> Decimal(s)]

\* the pods for the given node
candidatePods(items, prefix, nodeName) ==
    SelectSeq(items, LAMBDA pod : HasPrefix(pod.name, prefix) /\ pod.nodeName = nodeName)

\* the loop that picks the pod with the most recent revision, from its
\* iteration i on: the error it returns, or the iteration in which it took
\* the address of pod (0 when mostRecentPod is nil)
RECURSIVE mostRecent(_, _, _, _)
mostRecent(candidates, i, mostRecentRevision, mostRecentPod) ==
    IF i > Len(candidates) THEN [err |-> NoError, at |-> mostRecentPod]
    ELSE LET revision == Atoi(candidates[i].revision) IN
         IF revision.err # NoError THEN [err |-> revision.err, at |-> 0]
         ELSE IF revision.n > mostRecentRevision
              THEN mostRecent(candidates, i + 1, revision.n, i)
              ELSE mostRecent(candidates, i + 1, mostRecentRevision, mostRecentPod)

\* the pod behind the pointer &pod when the function returns (<<>> for nil)
podAt(candidates, at, loopvar) ==
    IF at = 0 THEN <<>>
    ELSE IF loopvar = "iteration" THEN <<candidates[at]>>
    ELSE <<candidates[Len(candidates)]>>

\* the operator's pods: any list, in any order
InitAccessor ==
    /\ files = {}
    /\ up = {}
    /\ chainExists = FALSE
    /\ apiChain = <<>>
    /\ PREROUTING = <<hostRule>>
    /\ OUTPUT = <<hostRule>>
    /\ sched = {}
    /\ InitProcs
    /\ prev = NoPass
    /\ InitCalc
    /\ installer = NoInstaller
    /\ signer = NoSigner
    /\ \E n \in 0..MaxPods : \E pods \in [1..n -> Pods] :
           accessor = [NoAccessor EXCEPT !.items = pods]

accessorVars == <<hostVars, procVars, histVars, prev, calcVars, installer, signer>>

\* podsGetter.Pods(namespace).List(ctx, LabelSelector: "apiserver=true")
ListPods ==
    /\ accessor.pc = "idle"
    /\ \E ok \in BOOLEAN :
         IF ok
         THEN accessor' = [accessor EXCEPT
                             !.pc = "listed",
                             !.items = SelectSeq(accessor.items,
                                                 LAMBDA pod : pod.apiserver = "true")]
         ELSE accessor' = [accessor EXCEPT
                             !.pc = "done",
                             !.err = Error("getStaticPodForGraceful", "List")]
    /\ UNCHANGED accessorVars

\* the rest of getStaticPodForGraceful(ctx, podsGetter, namespace,
\* staticPodPrefix, nodeName) for the node node-a
GetStaticPodForGraceful ==
    /\ accessor.pc = "listed"
    /\ LET candidates == candidatePods(accessor.items, staticPodPrefix, "node-a") IN
       IF Len(candidates) = 0
       THEN accessor' = [accessor EXCEPT
                           !.pc = "done",
                           !.err = Error("getStaticPodForGraceful", "NotFound")]
       ELSE LET picked == mostRecent(candidates, 1, 0, 0) IN
            \E loopvar \in {"loop", "iteration"} :
               accessor' = [accessor EXCEPT
                              !.pc = "done",
                              !.pod = podAt(candidates, picked.at, loopvar),
                              !.err = picked.err]
    /\ UNCHANGED accessorVars

NextAccessor ==
    \/ ListPods
    \/ GetStaticPodForGraceful

SpecAccessor == InitAccessor /\ [][NextAccessor]_vars

(***************************************************************************)
(* boundsatokensignercontroller: the sync of the bound token signer.  One  *)
(* worker runs sync, so at most one sync is under way; each call to the    *)
(* API server is a step of its own, and the clock may advance between any  *)
(* two steps.  A keypair is the number of its generation (0: no data), and *)
(* key 1 stands for a keypair that existed before the controller started.  *)
(* Time is counted in ticks, TicksPerSecond to the second: an RFC 3339     *)
(* time string holds whole seconds only.  The secret and config map        *)
(* clients and resourceapply belong to library-go, which is not part of    *)
(* the repository: a Get returns the object as it is or fails, an Apply    *)
(* writes the object it is given or fails, SyncSecret copies the source    *)
(* secret as it is at that moment or fails.  A stale read of the cached    *)
(* clients makes the write that follows fail and is covered by the failing *)
(* calls.  The next-key secret may be deleted at any moment, which is how  *)
(* a new keypair comes to be generated.                                    *)
(***************************************************************************)
\* ticks in a second
TicksPerSecond == 3

\* readyInterval, scaled from five minutes down to one second
readyInterval == 1 * TicksPerSecond

\* time.Format(time.RFC3339): the string of a time, in whole seconds
FormatRFC3339(t) == <<"T", t \div TicksPerSecond>>

\* time.Parse(time.RFC3339, s)
ParseRFC3339(s) ==
    IF Len(s) = 2 /\ s[1] = "T"
    THEN [err |-> NoError, t |-> s[2] * TicksPerSecond]
    ELSE [err |-> Error("sync", "time.Parse"), t |-> 0]

\* fmt.Sprintf("bound-service-account-%03d.pub", nextKeyIndex)
possibleKey(nextKeyIndex) ==
    <<"bound-service-account-", nextKeyIndex \div 100, (nextKeyIndex \div 10) % 10,
      nextKeyIndex % 10, ".pub">>

\* the keys of a map kept as a set of <<key, value>> pairs
Keys(data) == {e[1] : e \in data}

\* the values of such a map
Values(data) == {e[2] : e \in data}

\* data[key] = value
SetKey(data, key, value) == {e \in data : e[1] # key} \cup {<<key, value>>}

\* the key name at len(data) + 1, in use or not
nextKeyKeyUnchecked(data, nextKeyIndex) == possibleKey(nextKeyIndex)

\* "Increment until a unique name is found"
RECURSIVE nextKeyKey(_, _)
nextKeyKey(data, nextKeyIndex) ==
    IF possibleKey(nextKeyIndex) \notin Keys(data)
    THEN possibleKey(nextKeyIndex)
    ELSE nextKeyKey(data, nextKeyIndex + 1)

\* the annotation that is written now and names the present moment
readyTimeNow(now) == FormatRFC3339(now)

\* newSigningSecret: readyTime, the value of TokenReadyAnnotation
readyTime(now) == FormatRFC3339(now + readyInterval)

\* the secrets a cluster may hold under the name of the next key before the
\* controller starts: none, the keypair 1 or a part of it, with the
\* annotation missing or not a time
OldSecrets ==
    {<<>>} \cup {<<[priv |-> a, pub |-> b, ann |-> x]>> :
                    a \in {0, 1}, b \in {0, 1}, x \in {<<>>, <<"soon">>}}

\* the config maps it may hold: none, an empty one, one with the public key
\* 1 under the first name or under another name
OldConfigMaps ==
    {<<>>, <<{}>>, <<{<<possibleKey(1), 1>>}>>, <<{<<possibleKey(2), 1>>}>>}

InitSigner ==
    /\ files = {}
    /\ up = {}
    /\ chainExists = FALSE
    /\ apiChain = <<>>
    /\ PREROUTING = <<hostRule>>
    /\ OUTPUT = <<hostRule>>
    /\ sched = {}
    /\ InitProcs
    /\ prev = NoPass
    /\ InitCalc
    /\ installer = NoInstaller
    /\ accessor = NoAccessor
    /\ \E next \in OldSecrets, cm \in OldConfigMaps :
           signer = [NoSigner EXCEPT !.next = next, !.cm = cm]

signerVars == <<hostVars, procVars, histVars, prev, calcVars, installer, accessor>>

\* sync returns err
SyncReturn(err) ==
    signer' = [signer EXCEPT !.pc = "idle", !.err = err]

\* sync returns the error of the config map call without going on to the
\* promotion
SyncReturnPromoting(err) ==
    signer' = [signer EXCEPT !.pc = "syncSecret", !.err = err]

\* sync returns the error of a call on the config map
ConfigMapFailed(err) == SyncReturn(err)

\* the time passes
Tick ==
    /\ signer.now < MaxTime
    /\ signer' = [signer EXCEPT !.now = @ + 1]
    /\ UNCHANGED signerVars

\* somebody deletes the secret of the next key
DeleteNextSecret ==
    /\ signer.next # <<>>
    /\ Len(signer.created) <= MaxKeys
    /\ signer' = [signer EXCEPT !.next = <<>>]
    /\ UNCHANGED signerVars

\* sync: c.secretClient.Secrets(operatorNamespace).Get(NextPrivateKeySecretName)
\* and needKeypair
GetNextSecret ==
    /\ signer.pc = "idle"
    /\ \E ok \in BOOLEAN :
         IF ~ok THEN SyncReturn(Error("sync", "Get secret"))
         ELSE LET needKeypair == \/ signer.next = <<>>
                                 \/ signer.next[1].priv = 0
                                 \/ signer.next[1].pub = 0
              IN  signer' = [signer EXCEPT
                               !.pc = IF needKeypair THEN "newSigningSecret"
                                      ELSE "getConfigMap",
                               !.err = NoError,
                               !.creating = FALSE,
                               !.checked = -1,
                               !.signingSecret = signer.next]
    /\ UNCHANGED signerVars

\* newSigningSecret()
NewSigningSecret ==
    /\ signer.pc = "newSigningSecret"
    /\ Len(signer.created) <= MaxKeys
    /\ \E ok \in BOOLEAN :
         IF ~ok THEN SyncReturn(Error("newSigningSecret", "rsa.GenerateKey"))
         ELSE LET rsaKey == Len(signer.created) + 1 IN
              signer' = [signer EXCEPT
                           !.pc = "applySecret",
                           !.created = Append(@, signer.now),
                           !.newSecret = <<[priv |-> rsaKey, pub |-> rsaKey,
                                            ann |-> readyTime(signer.now)]>>]
    /\ UNCHANGED signerVars

\* resourceapply.ApplySecret(c.secretClient, c.eventRecorder, newSecret)
\* and c.queue.AddAfter
ApplySecret ==
    /\ signer.pc = "applySecret"
    /\ \E ok \in BOOLEAN :
         IF ~ok THEN SyncReturn(Error("sync", "ApplySecret"))
         ELSE signer' = [signer EXCEPT
                           !.pc = "getConfigMap",
                           !.creating = TRUE,
                           !.next = signer.newSecret,
                           !.signingSecret = signer.newSecret]
    /\ UNCHANGED signerVars

\* c.configMapClient.ConfigMaps(targetNamespace).Get(CertConfigMapName),
\* hasThisKey and the new entry of certConfigMap.Data
GetConfigMap ==
    /\ signer.pc = "getConfigMap"
    /\ \E ok \in BOOLEAN :
         IF ~ok THEN ConfigMapFailed(Error("sync", "Get config map"))
         ELSE LET data == IF signer.cm = <<>> THEN {} ELSE signer.cm[1]
                  currPublicKey == signer.signingSecret[1].pub
                  hasThisKey == currPublicKey \in Values(data)
              IN  signer' = [signer EXCEPT
                               !.pc = IF hasThisKey THEN "readyToPromote"
                                      ELSE "applyConfigMap",
                               !.certConfigMap =
                                   IF hasThisKey THEN data
                                   ELSE SetKey(data,
                                               nextKeyKey(data, Cardinality(data) + 1),
                                               currPublicKey)]
    /\ UNCHANGED signerVars

\* resourceapply.ApplyConfigMap(c.configMapClient, c.eventRecorder, certConfigMap)
ApplyConfigMap ==
    /\ signer.pc = "applyConfigMap"
    /\ \E ok \in BOOLEAN :
         IF ~ok THEN ConfigMapFailed(Error("sync", "ApplyConfigMap"))
         ELSE signer' = [signer EXCEPT
                           !.pc = "readyToPromote",
                           !.cm = <<signer.certConfigMap>>]
    /\ UNCHANGED signerVars

\* readyToPromote, with the reading of time.Now() kept in checked
ReadyToPromote ==
    /\ signer.pc = "readyToPromote"
    /\ LET ann == signer.signingSecret[1].ann
           promotionTime == ParseRFC3339(ann)
           readyToPromote ==
               \/ Len(ann) = 0
               \/ promotionTime.err # NoError
               \/ signer.now > promotionTime.t
       IN  signer' = [signer EXCEPT
                        !.pc = IF readyToPromote THEN "syncSecret" ELSE "idle",
                        !.checked = signer.now]
    /\ UNCHANGED signerVars

\* resourceapply.SyncSecret(..., operatorNamespace, NextPrivateKeySecretName,
\* targetNamespace, PrivateKeySecretName, ...): the copy of the source, and
\* with no source nothing to copy, the target left alone or removed
SyncSecret ==
    /\ signer.pc = "syncSecret"
    /\ \E ok \in BOOLEAN :
         IF ~ok THEN SyncReturn(Error("sync", "SyncSecret"))
         ELSE IF signer.next # <<>>
         THEN signer' = [signer EXCEPT
                           !.pc = "idle",
                           !.target = <<[priv |-> signer.next[1].priv,
                                         pub |-> signer.next[1].pub]>>]
         ELSE \E target \in {signer.target, <<>>} :
                  signer' = [signer EXCEPT !.pc = "idle", !.target = target]
    /\ UNCHANGED signerVars

NextSigner ==
    \/ Tick
    \/ DeleteNextSecret
    \/ GetNextSecret
    \/ NewSigningSecret
    \/ ApplySecret
    \/ GetConfigMap
    \/ ApplyConfigMap
    \/ ReadyToPromote
    \/ SyncSecret

SpecSigner == InitSigner /\ [][NextSigner]_vars

(***************************************************************************)
(* Vocabulary of the properties, written without the operators of the      *)
(* model above.                                                            *)
(***************************************************************************)
\* the unconditional DNAT rules of the instance at the offset
Unconditional(offset) ==
    {[state |-> "", dport |-> t, to |-> t + offset] : t \in {6443, 6080, 17697}}

\* the established/related-scoped DNAT rules of the instance at the offset
Established(offset) ==
    {[state |-> "ESTABLISHED,RELATED", dport |-> t, to |-> t + offset] :
        t \in {6443, 6080, 17697}}

\* the manifests of lowest and of highest revision that the invocation found
Lowest(p) ==
    CHOOSE m \in Range(manifests[p]) :
        \A y \in Range(manifests[p]) : m.revision <= y.revision

Highest(p) ==
    CHOOSE m \in Range(manifests[p]) :
        \A y \in Range(manifests[p]) : m.revision >= y.revision

OffsetOf(m) == m.port - 6443

\* a call of fn of invocation p has returned without error
Returned(p, fn) ==
    /\ fr[p].fn = fn
    /\ fr[p].pc = "return"
    /\ fr[p].err = NoError

(***************************************************************************)
(* C1: whatever the chain held before, a call of ensureActiveRules(portMap)*)
(* that returns without error leaves the chain with exactly the            *)
(* unconditional DNAT rules of portMap, one per canonical port.            *)
(***************************************************************************)
C1_ActiveRulesExact ==
    \A p \in Procs :
        Returned(p, "ensureActiveRules") =>
            /\ Range(apiChain) =
                   {[state |-> "", dport |-> t, to |-> fr[p].args[1][t]] :
                       t \in {6443, 6080, 17697}}
            /\ Len(apiChain) = 3

\* the chain the call of invocation p started with
Before(p) == Range(log[p][1][2])

\* a call has returned from a chain that held an established-scoped rule and
\* an unconditional rule of another port map
C1_Witness ==
    \E p \in Procs :
        /\ Returned(p, "ensureActiveRules")
        /\ \E r \in Before(p) : r.state = "ESTABLISHED,RELATED"
        /\ \E r \in Before(p) : r.state = "" /\ r.to # fr[p].args[1][r.dport]

(***************************************************************************)
(* C2: whatever the chain held before, a call of                           *)
(* ensureTransitionRules(activeMap, nextMap) that returns without error    *)
(* leaves the chain with exactly the established/related-scoped rules of   *)
(* activeMap and the unconditional rules of nextMap.                       *)
(***************************************************************************)
C2_TransitionRulesExact ==
    \A p \in Procs :
        Returned(p, "ensureTransitionRules") =>
            /\ Range(apiChain) =
                   {[state |-> "ESTABLISHED,RELATED", dport |-> t,
                     to |-> fr[p].args[1][t]] : t \in {6443, 6080, 17697}}
                   \cup
                   {[state |-> "", dport |-> t, to |-> fr[p].args[2][t]] :
                       t \in {6443, 6080, 17697}}
            /\ Len(apiChain) = 6

\* a call has returned from a chain that held the unconditional rule of the
\* active map and an established-scoped rule of another map
C2_Witness ==
    \E p \in Procs :
        /\ Returned(p, "ensureTransitionRules")
        /\ \E r \in Before(p) : r.state = "" /\ r.to = fr[p].args[1][r.dport]
        /\ \E r \in Before(p) :
               r.state = "ESTABLISHED,RELATED" /\ r.to # fr[p].args[1][r.dport]

(***************************************************************************)
(* C3: a pass that finds two manifests and in which no call fails          *)
(* completes exactly these steps, in this order: chain reconciled to the   *)
(* unconditional rules of the active (lower-revision) instance; wait on    *)
(* the health port of the next instance; chain reconciled to the           *)
(* established rules of the active and the unconditional rules of the next *)
(* instance; manifest of the active instance removed; wait on the health   *)
(* port of the active instance; chain reconciled to the unconditional      *)
(* rules of the next instance.  It removes no other file.                  *)
(***************************************************************************)
C3_StepsInOrder ==
    \A p \in Procs :
        (pc[p] = "done" /\ Len(manifests[p]) = 2 /\ failed[p] = {}) =>
            LET a == OffsetOf(Lowest(p))
                n == OffsetOf(Highest(p))
            IN  /\ log[p] = << <<"rules", Unconditional(a)>>,
                               <<"wait", 6080 + n>>,
                               <<"rules", Established(a) \cup Unconditional(n)>>,
                               <<"remove", Lowest(p).revision>>,
                               <<"wait", 6080 + a>>,
                               <<"rules", Unconditional(n)>> >>
                /\ files = Range(manifests[p]) \ {Lowest(p)}
                /\ ret[p] = NoError

C3_Witness ==
    \E p \in Procs :
        /\ pc[p] = "done"
        /\ Len(manifests[p]) = 2
        /\ failed[p] = {}
        /\ Len(log[p]) = 6

(***************************************************************************)
(* C4: a pass that finds more than two manifests changes no rule of the    *)
(* chain or of its jump points and removes no manifest, logs a warning and *)
(* returns without error.                                                  *)
(***************************************************************************)
C4_NoActionOnManyManifests ==
    /\ [][\A p \in Procs :
            Len(manifests[p]) > 2 =>
                UNCHANGED <<chainExists, apiChain, PREROUTING, OUTPUT, files>>]_vars
    /\ [](\A p \in Procs :
            (pc[p] = "done" /\ Len(manifests[p]) > 2 /\ failed[p] = {}) =>
                /\ ret[p] = NoError
                /\ \E m \in klog[p] : m[1] = "Warningf")

(***************************************************************************)
(* C5: when ensureTransitionRules fails in a two-manifest pass and the     *)
(* cleanup succeeds, the pass ends with the chain holding exactly the      *)
(* unconditional rules of the active instance, the manifest of the active  *)
(* instance still in the directory, and the error of the transition step   *)
(* returned.                                                               *)
(***************************************************************************)
\* the transition step of the pass failed and its cleanup completed
TransitionFailedCleanupDone(p) ==
    /\ pc[p] = "done"
    /\ Len(manifests[p]) = 2
    /\ \E e \in failed[p] : e[1] = "ensureTransition"
    /\ \A e \in failed[p] : e[1] = "ensureTransition"

C5_RollbackRestoresActive ==
    \A p \in Procs :
        TransitionFailedCleanupDone(p) =>
            /\ Range(apiChain) = Unconditional(OffsetOf(Lowest(p)))
            /\ Len(apiChain) = 3
            /\ Lowest(p) \in files
            /\ ret[p] \in failed[p]

C5_Witness ==
    \E p \in Procs :
        /\ TransitionFailedCleanupDone(p)
        /\ ret[p] = Error("ensureTransition", "AppendUnique")

(***************************************************************************)
(* C6: when a step of the transition fails the pass returns the error of   *)
(* that step, and when the cleanup fails too, both errors are returned or  *)
(* logged.                                                                 *)
(***************************************************************************)
\* the errors the pass has returned or logged
Surfaced(p) ==
    {ret[p]} \cup {m[2] : m \in {k \in klog[p] : k[1] = "Errorf"}}

C6_BothErrorsSurfaced ==
    \A p \in Procs :
        (pc[p] = "done" /\ origErr[p] # NoError) =>
            /\ ret[p] = origErr[p]
            /\ failed[p] \subseteq Surfaced(p)

(***************************************************************************)
(* C7: ensureTransitionRules is not entered before a connection to the     *)
(* health port of the next instance has been seen to succeed.              *)
(***************************************************************************)
C7_TransitionAfterNextReady ==
    \A p \in Procs :
        fr[p].fn = "ensureTransitionRules" =>
            /\ Len(probe[p]) = 1
            /\ probe[p][1][2] = TRUE

(***************************************************************************)
(* C8: the finalizing ensureActiveRules(nextMap), which removes the        *)
(* established-scoped rules of the old instance, is not entered before the *)
(* health port of the old instance has been seen to be unreachable.        *)
(***************************************************************************)
C8_FinalizeAfterDrain ==
    \A p \in Procs :
        pc[p] = "finalize" =>
            /\ Len(probe[p]) = 2
            /\ probe[p][2][2] = FALSE

(***************************************************************************)
(* C9: the manifest of the old instance is removed only when the health    *)
(* port of the old instance is no longer reachable.                        *)
(***************************************************************************)
C9_RemoveAfterDrain ==
    [][\A m \in files \ files' : ~(\E u \in up : u.port = m.port)]_vars

(***************************************************************************)
(* C9, amended: the manifest of the old (lowest-revision) instance is      *)
(* removed only after ensureTransitionRules has returned without error in  *)
(* the same pass, while the chain holds exactly the established-scoped     *)
(* rules of the old instance and the unconditional rules of the next port  *)
(* map, and before the wait for the old instance to drain.                 *)
(***************************************************************************)
C9_RemoveAfterTransition ==
    [][\A m \in files \ files' :
          \E p \in Procs :
              /\ manifests[p] # <<>>
              /\ log[p] # <<>>
              /\ m = Lowest(p)
              /\ Range(apiChain) =
                     Established(OffsetOf(m))
                     \cup Unconditional(IF m.port = 6444 THEN 2 ELSE 1)
              /\ log[p][Len(log[p])] = <<"rules", Range(apiChain)>>
              /\ Len(probe[p]) = 1]_vars

\* the manifest of the old instance is gone while the instance still listens
C9_Witness ==
    \E p \in Procs :
        /\ manifests[p] # <<>>
        /\ pc[p] = "waitDrain"
        /\ Lowest(p) \notin files
        /\ Lowest(p) \in up

(***************************************************************************)
(* C10: in a pass that found a manifest, from the end of the first         *)
(* reconciliation on and as long as no call on the rules has failed, the   *)
(* chain has at every step an unconditional DNAT rule for each canonical   *)
(* port.                                                                   *)
(***************************************************************************)
C10_CanonicalPortsForwarded ==
    \A p \in Procs :
        (Len(log[p]) >= 1 /\ \A e \in failed[p] : e[2] = "Remove") =>
            \A t \in {6443, 6080, 17697} :
                \E i \in 1..Len(apiChain) :
                    apiChain[i].state = "" /\ apiChain[i].dport = t

\* ensureTransitionRules is deleting the rules of the old instance
C10_Witness ==
    \E p \in Procs :
        /\ fr[p].fn = "ensureTransitionRules"
        /\ fr[p].pc = "Delete"
        /\ Len(fr[p].rest) = 1
        /\ failed[p] = {}

(***************************************************************************)
(* C15: for an active instance on 6443, 6444 or 6445 the offset of the     *)
(* next port map differs from the offset of the active instance            *)
(* (activePort mod 6443), so no port of the next instance is a port of the *)
(* active one.                                                             *)
(***************************************************************************)
C15_NextOffsetDiffers ==
    (portMaps # <<>> /\ instancePort \in {6443, 6444, 6445}) =>
        /\ portMaps[2][6443] - 6443 # instancePort % 6443
        /\ \A t \in {6443, 6080, 17697} : portMaps[2][t] # portMaps[1][t]

\* the maps have been computed for an active instance on the last port
C15_Witness ==
    /\ portMaps # <<>>
    /\ instancePort = 6445
    /\ rotation = <<6445>>

(***************************************************************************)
(* C16: feeding NextPortMap the secure port of its own result, starting    *)
(* from the canonical port 6443, yields the offsets 0, 1, 2, 0, 1, 2, ...  *)
(***************************************************************************)
C16_RotationCycles ==
    rotation # <<>> /\ rotation[1] = 6443 =>
        \A i \in 1..Len(rotation) : rotation[i] - 6443 = (i - 1) % 3

(***************************************************************************)
(* C16, amended: feeding NextPortMap the secure port of its own result,    *)
(* starting from the canonical port 6443, yields the offsets               *)
(* 0, 1, 2, 1, 2, ...: the successor of offset 0 is 1, of offset 1 is 2,   *)
(* and of offset 2 is 1.                                                   *)
(***************************************************************************)
C16_RotationAlternates ==
    /\ rotation # <<>> /\ rotation[1] = 6443 =>
           \A i \in 1..Len(rotation) :
               rotation[i] - 6443 = IF i = 1 THEN 0 ELSE IF i % 2 = 0 THEN 1 ELSE 2
    /\ \A i \in 1..(Len(rotation) - 1) :
           /\ rotation[i] = 6443 => rotation[i + 1] = 6444
           /\ rotation[i] = 6444 => rotation[i + 1] = 6445
           /\ rotation[i] = 6445 => rotation[i + 1] = 6444

\* the rotation from 6443 has left offset 2
C16_Witness ==
    /\ Len(rotation) >= 4
    /\ rotation[1] = 6443
    /\ rotation[3] = 6445

(***************************************************************************)
(* C17: NextPortMap(activePort) is the offset-1 map (6443->6444,           *)
(* 6080->6081, 17697->17698) when activePort is 6443 or 0, and the         *)
(* offset-2 map (6443->6445, 6080->6082, 17697->17699) for every other     *)
(* active port.                                                            *)
(***************************************************************************)
C17_OffsetTwoOtherwise ==
    portMaps # <<>> =>
        portMaps[2] =
            IF instancePort = 6443 \/ instancePort = 0
            THEN (6443 :> 6444) @@ (6080 :> 6081) @@ (17697 :> 17698)
            ELSE (6443 :> 6445) @@ (6080 :> 6082) @@ (17697 :> 17699)

(***************************************************************************)
(* C17, amended: NextPortMap(activePort) is the offset-2 map (6443->6445,  *)
(* 6080->6082, 17697->17699) when activePort is 6444, and the offset-1 map *)
(* (6443->6444, 6080->6081, 17697->17698) for every other active port,     *)
(* among them 6443, 6445 and 0 (no active instance).                       *)
(***************************************************************************)
C17_OffsetTwoAfter6444 ==
    portMaps # <<>> =>
        portMaps[2] =
            IF instancePort = 6444
            THEN (6443 :> 6445) @@ (6080 :> 6082) @@ (17697 :> 17699)
            ELSE (6443 :> 6444) @@ (6080 :> 6081) @@ (17697 :> 17698)

\* the next map has been computed when there is no active instance
C17_Witness ==
    /\ portMaps # <<>>
    /\ instancePort = 0

(***************************************************************************)
(* C18: when the directory has no manifest, no step changes the chain, its *)
(* jump rules or the directory (a chain that exists keeps its rules), and  *)
(* a pass that finds no manifest returns without error having completed no *)
(* step.                                                                   *)
(***************************************************************************)
C18_NoActionOnZeroManifests ==
    /\ [][files = {} =>
            UNCHANGED <<chainExists, apiChain, PREROUTING, OUTPUT, files>>]_vars
    /\ [](\A p \in Procs :
            (pc[p] = "done" /\ manifests[p] = <<>> /\ failed[p] = {}) =>
                /\ ret[p] = NoError
                /\ log[p] = <<>>
                /\ probe[p] = <<>>
                /\ fr[p].fn = "none")

\* a pass has found no manifest beside a chain that holds rules
C18_Witness ==
    \E p \in Procs :
        /\ pc[p] = "done"
        /\ manifests[p] = <<>>
        /\ failed[p] = {}
        /\ chainExists
        /\ Len(apiChain) = 6

(***************************************************************************)
(* C19: a pass that finds one manifest, with port 6443+k, and in which no  *)
(* call fails ends with the chain holding exactly 6443->6443+k,            *)
(* 6080->6080+k and 17697->17697+k, with the manifest still in the         *)
(* directory, without a readiness wait, and returns without error.         *)
(***************************************************************************)
C19_SingleManifestEnsured ==
    \A p \in Procs :
        (pc[p] = "done" /\ Len(manifests[p]) = 1 /\ failed[p] = {}) =>
            LET k == manifests[p][1].port - 6443 IN
            /\ Range(apiChain) = Unconditional(k)
            /\ Len(apiChain) = 3
            /\ files = {manifests[p][1]}
            /\ probe[p] = <<>>
            /\ log[p] = << <<"rules", Unconditional(k)>> >>
            /\ ret[p] = NoError

\* the pass has ended for a single instance on the last port of the rotation
C19_Witness ==
    \E p \in Procs :
        /\ pc[p] = "done"
        /\ Len(manifests[p]) = 1
        /\ failed[p] = {}
        /\ manifests[p][1].port = 6445

(***************************************************************************)
(* C20: no step creates or rewrites a manifest; a pass removes at most one *)
(* manifest; the manifest it removes is the one of lowest revision, the    *)
(* pass found exactly two manifests, and its ensureTransitionRules has     *)
(* returned without error.                                                 *)
(***************************************************************************)
C20_RemovesOnlyActiveOfTwo ==
    [][/\ files' \subseteq files
       /\ Cardinality(files \ files') <= 1
       /\ \A m \in files \ files' :
             \E p \in Procs :
                 /\ Len(manifests[p]) = 2
                 /\ m = Lowest(p)
                 /\ \A i \in 1..Len(log[p]) : log[p][i][1] # "remove"
                 /\ Len(log[p]) = 3
                 /\ log[p][3][1] = "rules"]_vars

(***************************************************************************)
(* C13: a call of ensureActiveRules that follows at once a call of         *)
(* ensureActiveRules with the same port map that returned without error    *)
(* changes nothing: it creates no chain, adds no jump rule, appends and    *)
(* deletes no rule, and the chain stays as the first call left it.         *)
(***************************************************************************)
C13_ActiveRulesIdempotent ==
    /\ [][\A p \in Procs :
            (Len(log[p]) = 2 /\ log[p][2][2] = "ensureActiveRules") =>
                /\ UNCHANGED <<chainExists, apiChain, PREROUTING, OUTPUT>>
                /\ fr'[p].pc \notin {"NewChain", "Delete"}]_vars
    /\ [](\A p \in Procs :
            (Len(log[p]) = 2 /\ log[p][2][2] = "ensureActiveRules") =>
                /\ fr[p].args = log[p][2][3]
                /\ <<chainExists, apiChain, PREROUTING, OUTPUT>> = log[p][2][4])

\* the second call has returned, after a first call that had rules to delete
C13_Witness ==
    \E p \in Procs :
        /\ Len(log[p]) = 2
        /\ log[p][2][2] = "ensureActiveRules"
        /\ Returned(p, "ensureActiveRules")
        /\ \E r \in Before(p) : r \notin Range(apiChain)

(***************************************************************************)
(* C14: whatever the chain held before and for every pair of port maps, a  *)
(* call of ensureActiveRules(nextMap) that returns without error at once   *)
(* after a call of ensureTransitionRules(activeMap, nextMap) that returned *)
(* without error leaves the chain with exactly the unconditional rules of  *)
(* nextMap and no established-scoped rule.                                 *)
(***************************************************************************)
C14_TransitionThenActive ==
    \A p \in Procs :
        (/\ Len(log[p]) = 2
         /\ log[p][2][2] = "ensureTransitionRules"
         /\ Returned(p, "ensureActiveRules")) =>
            /\ Range(apiChain) =
                   {[state |-> "", dport |-> t, to |-> log[p][2][3][2][t]] :
                       t \in {6443, 6080, 17697}}
            /\ Len(apiChain) = 3
            /\ \A i \in 1..Len(apiChain) : apiChain[i].state = ""

\* the pair of calls has returned for two different port maps
C14_Witness ==
    \E p \in Procs :
        /\ Len(log[p]) = 2
        /\ log[p][2][2] = "ensureTransitionRules"
        /\ Returned(p, "ensureActiveRules")
        /\ log[p][2][3][1] # log[p][2][3][2]
        /\ Before(p) # {}

(***************************************************************************)
(* C11: the pass that runs after a pass that crashed with the old manifest *)
(* removed, and in which no call fails, finds the manifest of the new      *)
(* instance alone, completes the one reconciliation of the single-manifest *)
(* branch and ends with the chain holding exactly the unconditional rules  *)
(* of the new instance, with no established-scoped rule left.              *)
(***************************************************************************)
C11_AfterCrashSingleActive ==
    \A p \in Procs :
        (/\ pc[p] = "done"
         /\ failed[p] = {}
         /\ prev.end = "crashed"
         /\ prev.removed) =>
            /\ Len(manifests[p]) = 1
            /\ manifests[p][1].revision = 2
            /\ files = {manifests[p][1]}
            /\ log[p] = << <<"rules", Unconditional(OffsetOf(manifests[p][1]))>> >>
            /\ Range(apiChain) = Unconditional(OffsetOf(manifests[p][1]))
            /\ Len(apiChain) = 3
            /\ \A i \in 1..Len(apiChain) : apiChain[i].state # "ESTABLISHED,RELATED"
            /\ ret[p] = NoError

\* such a pass has ended, and the crash had left established-scoped rules
C11_Witness ==
    \E p \in Procs :
        /\ pc[p] = "done"
        /\ failed[p] = {}
        /\ prev.end = "crashed"
        /\ prev.removed
        /\ prev.established

(***************************************************************************)
(* C12: from two manifests and any chain, when the pass is run again after *)
(* every crash and every failed pass, and passes crash and calls fail in   *)
(* finitely many passes only, the rollout eventually is finalized: the     *)
(* manifest of the higher revision is the only one and the chain holds     *)
(* exactly the unconditional rules of its instance.                        *)
(***************************************************************************)
FinalState ==
    /\ Cardinality(files) = 1
    /\ \A m \in files :
          /\ m.revision = 2
          /\ Range(apiChain) = Unconditional(OffsetOf(m))
          /\ Len(apiChain) = 3

C12_EventuallyFinalized ==
    <>FinalState

\* the rollout is finalized by a pass that follows a failed pass
C12_Witness ==
    \E p \in Procs :
        /\ FinalState
        /\ pc[p] = "done"
        /\ ret[p] = NoError
        /\ prev.end = "failed"

(***************************************************************************)
(* C21: however often the pass is run, PREROUTING and OUTPUT never hold    *)
(* more than one jump to the dedicated chain and keep the rules of the     *)
(* host as they were; when ensureActiveRules has returned without error    *)
(* each of them holds exactly one jump; and no step of                     *)
(* ensureTransitionRules changes PREROUTING, OUTPUT or the set of chains.  *)
(***************************************************************************)
C21_JumpRulesOnce ==
    /\ [](\A chain \in {PREROUTING, OUTPUT} :
             /\ SelectSeq(chain, LAMBDA r : r # "-j OPENSHIFT_APISERVER_REWRITE")
                    = <<"-j KUBE-SERVICES">>
             /\ Len(chain) <= 2)
    /\ [](\A p \in Procs :
             Returned(p, "ensureActiveRules") =>
                 /\ PREROUTING = <<"-j KUBE-SERVICES", "-j OPENSHIFT_APISERVER_REWRITE">>
                 /\ OUTPUT = <<"-j KUBE-SERVICES", "-j OPENSHIFT_APISERVER_REWRITE">>)
    /\ [][\A p \in Procs :
             (fr[p].fn = "ensureTransitionRules" /\ fr'[p].fn = "ensureTransitionRules") =>
                 UNCHANGED <<chainExists, PREROUTING, OUTPUT>>]_vars

\* ensureActiveRules has returned without error in a pass that follows a
\* pass that had created the chain and the jumps, or some of them
C21_Witness ==
    \E p \in Procs :
        /\ Returned(p, "ensureActiveRules")
        /\ prev.passes >= 1
        /\ pc[p] = "finalize"

(***************************************************************************)
(* C22: the step of ensureActiveRules or ensureTransitionRules in which a  *)
(* call on the iptables handle fails changes no rule and makes the         *)
(* reconciliation return the error of that call; a reconciliation that has *)
(* returned an error makes no further call, so the rules it had changed    *)
(* before the failure stay as they are.                                    *)
(***************************************************************************)
C22_FailureAborts ==
    [][\A p \in Procs :
          /\ ~(failed'[p] \subseteq failed[p]) =>
                /\ UNCHANGED <<chainExists, apiChain, PREROUTING, OUTPUT>>
                /\ fr'[p].fn = fr[p].fn
                /\ fr'[p].pc = "return"
                /\ fr'[p].err \in failed'[p] \ failed[p]
                /\ fr'[p].err[2] =
                      CASE fr[p].pc = "ChainExists" -> "ChainExists"
                        [] fr[p].pc = "NewChain" -> "NewChain"
                        [] fr[p].pc = "List" -> "List"
                        [] fr[p].pc = "Delete" -> "Delete"
                        [] OTHER -> "AppendUnique"
          /\ (fr[p].pc = "return" /\ fr[p].err # <<>>) =>
                /\ UNCHANGED <<chainExists, apiChain, PREROUTING, OUTPUT>>
                /\ fr'[p] = fr[p]
      ]_vars

\* a reconciliation has returned the error of a call that failed after it
\* had changed the chain, which is neither as it was nor as desired
C22_Witness ==
    \E p \in Procs :
        /\ fr[p].fn \in {"ensureActiveRules", "ensureTransitionRules"}
        /\ fr[p].pc = "return"
        /\ fr[p].err # <<>>
        /\ Len(log[p]) = 1
        /\ Range(apiChain) # Before(p)
        /\ Range(apiChain) # fr[p].dnatRules

(***************************************************************************)
(* C23: a pass whose scan of the manifest directory fails returns the      *)
(* error of the scan, having started no reconciliation and completed no    *)
(* step; and while every invocation is before its scan, or has ended with  *)
(* the error of its scan, no manifest is removed and no rule or chain is   *)
(* changed.                                                                *)
(***************************************************************************)
C23_ScanErrorReturned ==
    /\ [](\A p \in Procs :
             <<"ReadStaticPodManifests", "ReadStaticPodManifests">> \in failed[p] =>
                 /\ pc[p] = "done"
                 /\ ret[p] = <<"ReadStaticPodManifests", "ReadStaticPodManifests">>
                 /\ fr[p].fn = "none"
                 /\ log[p] = <<>>)
    /\ [][(\A p \in Procs :
              \/ pc[p] \in {"idle", "ReadStaticPodManifests"}
              \/ <<"ReadStaticPodManifests", "ReadStaticPodManifests">> \in failed[p]) =>
           UNCHANGED <<files, chainExists, apiChain, PREROUTING, OUTPUT>>]_vars

\* the scan has failed on a directory of two manifests, with the chain
\* holding rules
C23_Witness ==
    \E p \in Procs :
        /\ <<"ReadStaticPodManifests", "ReadStaticPodManifests">> \in failed[p]
        /\ pc[p] = "done"
        /\ Cardinality(files) = 2
        /\ apiChain # <<>>

(***************************************************************************)
(* C24: the map activePortMap computes for an active port has the offset   *)
(* of that port modulo 6443, which for the instance ports 6443, 6444 and   *)
(* 6445 is 0, 1 and 2; for an active instance on one of these ports every  *)
(* map computed has an offset of 0, 1 or 2; and the map activePortMap      *)
(* computes for the secure port of the next map is the next map.           *)
(***************************************************************************)
C24_OffsetRecovered ==
    portMaps # <<>> =>
        /\ \A t \in {6443, 6080, 17697} :
               portMaps[1][t] = t + (instancePort % 6443)
        /\ \A k \in 0..2 :
               instancePort = 6443 + k =>
                   /\ \A t \in {6443, 6080, 17697} : portMaps[1][t] = t + k
                   /\ \A i \in 1..3 : \E o \in 0..2 :
                          \A t \in {6443, 6080, 17697} : portMaps[i][t] = t + o
        /\ portMaps[3] = portMaps[2]

\* the maps are computed for the instance on 6445, which a rotation has made
\* the active one
C24_Witness ==
    /\ portMaps # <<>>
    /\ instancePort = 6445
    /\ Len(rotation) >= 2

(***************************************************************************)
(* C26: a pass that finds two manifests and in which the removal of the    *)
(* active manifest is the only call that fails ends with the chain holding *)
(* exactly the three unconditional rules of the active instance (the       *)
(* transition rules are gone), with both manifests still in the directory, *)
(* and returns the error of the removal.                                   *)
(***************************************************************************)
C26_RemoveFailureRolledBack ==
    \A p \in Procs :
        (/\ pc[p] = "done"
         /\ Len(manifests[p]) = 2
         /\ failed[p] = {<<"osRemove", "Remove">>}) =>
            /\ Range(apiChain) = Unconditional(OffsetOf(Lowest(p)))
            /\ Len(apiChain) = 3
            /\ files = Range(manifests[p])
            /\ Cardinality(files) = 2
            /\ ret[p] = <<"osRemove", "Remove">>

\* such a pass has ended, and the transition rules had been installed
C26_Witness ==
    \E p \in Procs :
        /\ pc[p] = "done"
        /\ Len(manifests[p]) = 2
        /\ failed[p] = {<<"osRemove", "Remove">>}
        /\ \E i \in 1..Len(log[p]) :
               log[p][i] = <<"rules", Established(OffsetOf(Lowest(p)))
                                        \cup Unconditional(OffsetOf(Highest(p)))>>

(***************************************************************************)
(* C27: when ensureTransitionRules has returned without error in a pass,   *)
(* every established/related-scoped rule of the active map stands in the   *)
(* chain before the unconditional rule of the next map for the same        *)
(* canonical port.                                                         *)
(***************************************************************************)
C27_EstablishedFirst ==
    \A p \in Procs :
        (Returned(p, "ensureTransitionRules") /\ pc[p] = "ensureTransition") =>
            \A i, j \in 1..Len(apiChain) :
                (/\ apiChain[i].state = "ESTABLISHED,RELATED"
                 /\ apiChain[i].to = fr[p].args[1][apiChain[i].dport]
                 /\ apiChain[j].state = ""
                 /\ apiChain[j].to = fr[p].args[2][apiChain[j].dport]
                 /\ apiChain[i].dport = apiChain[j].dport) => i < j

\* ensureTransitionRules has returned without error in a pass, and the chain
\* holds both rules for every canonical port
C27_Witness ==
    \E p \in Procs :
        /\ Returned(p, "ensureTransitionRules")
        /\ pc[p] = "ensureTransition"
        /\ \A t \in {6443, 6080, 17697} :
              /\ \E i \in 1..Len(apiChain) :
                     apiChain[i] = [state |-> "ESTABLISHED,RELATED", dport |-> t,
                                    to |-> fr[p].args[1][t]]
              /\ \E j \in 1..Len(apiChain) :
                     apiChain[j] = [state |-> "", dport |-> t, to |-> fr[p].args[2][t]]

(***************************************************************************)
(* C28: when the initialization of the installer has pruned the directory  *)
(* without error, the only manifest left of those it had found is the one  *)
(* of lowest revision; the port map it then chooses is the one at offset 2 *)
(* when that manifest is on 6444 and at offset 1 otherwise, also when it   *)
(* had found no manifest; and the removal that fails removes nothing, ends *)
(* the initialization with the error of the removal and without a port     *)
(* map, and nothing is removed or installed after it.                      *)
(***************************************************************************)
C28_InstallerPrunesAllButActive ==
    /\ [](installer.pc \in {"portMap", "install"} =>
             files = {m \in Range(installer.manifests) :
                         \A y \in Range(installer.manifests) :
                             m.revision <= y.revision})
    /\ [](installer.pc = "install" =>
             \A t \in {6443, 6080, 17697} :
                 installer.portMap[t] =
                     t + (IF \E m \in files : m.port = 6444 THEN 2 ELSE 1))
    /\ [](installer.err = <<"osRemove", "Remove">> =>
             /\ installer.pc = "done"
             /\ installer.portMap = <<>>)
    /\ [][installer'.err = <<"osRemove", "Remove">> => UNCHANGED files]_vars

\* the initialization has pruned two of three manifests and chosen the port
\* map
C28_Witness ==
    /\ installer.pc = "install"
    /\ Len(installer.manifests) = 3
    /\ Cardinality(files) = 1

(***************************************************************************)
(* C29: on a node that started with the manifest of an instance, with the  *)
(* steps of the installer and of the monitor's pass interleaved, the       *)
(* manifest directory is never empty.                                      *)
(***************************************************************************)
C29_NeverZeroManifests ==
    installer.revision > installer.runs => files # {}

(***************************************************************************)
(* C30: when the finalizing ensureActiveRules of a pass that found two     *)
(* manifests has returned without error, after whatever runs of the        *)
(* installer and passes came before, the chain holds exactly the           *)
(* unconditional rules of the instance the manifest of the higher revision *)
(* declares: the canonical secure port is forwarded to its port, and the   *)
(* rules are those a pass that finds this manifest alone ensures.          *)
(***************************************************************************)
C30_FinalRulesMatchSurvivor ==
    \A p \in Procs :
        (/\ pc[p] = "finalize"
         /\ Returned(p, "ensureActiveRules")
         /\ Len(manifests[p]) = 2) =>
            /\ fr[p].args[1][6443] = Highest(p).port
            /\ Range(apiChain) = Unconditional(OffsetOf(Highest(p)))
            /\ Len(apiChain) = 3

\* a second rollout is finalized: the pass had found the manifests of the
\* revisions the installer installed in its two runs
C30_Witness ==
    \E p \in Procs :
        /\ pc[p] = "finalize"
        /\ Returned(p, "ensureActiveRules")
        /\ Len(manifests[p]) = 2
        /\ Lowest(p).revision = installer.revision - 1
        /\ installer.runs = 2
        /\ Lowest(p).port # 6443

(***************************************************************************)
(* C25: when two passes have both returned without error and the chain is  *)
(* the desired rule set of neither (the unconditional rules of the one     *)
(* manifest the pass found, or of the next port map of the pass that found *)
(* more), the first pass was still running when the second was started:    *)
(* with one pass at a time there is no such state.                         *)
(***************************************************************************)
DesiredRules(p) ==
    Unconditional(IF Len(manifests[p]) = 1 THEN OffsetOf(Lowest(p))
                  ELSE IF Lowest(p).port = 6444 THEN 2 ELSE 1)

BothReturnedUndesired ==
    /\ \A p \in Procs :
          /\ pc[p] = "done"
          /\ ret[p] = <<>>
          /\ failed[p] = {}
          /\ manifests[p] # <<>>
    /\ \A p \in Procs : Range(apiChain) # DesiredRules(p)

C25_RaceNeedsOverlap ==
    BothReturnedUndesired => prev.end = "running"

\* two interleaved passes have both returned without error, and the chain
\* has no unconditional rule for a canonical port
C25_Witness ==
    /\ BothReturnedUndesired
    /\ prev.end = "running"
    /\ \E t \in {6443, 6080, 17697} :
           \A i \in 1..Len(apiChain) :
               ~(apiChain[i].state = "" /\ apiChain[i].dport = t)


\* the candidates of the call that returned
Candidates == candidatePods(accessor.items, staticPodPrefix, "node-a")

\* C31: the pod getStaticPodForGraceful returns is a pod of the given node
\* with the static pod prefix whose revision is the greatest among these
\* pods, for every list of pods in every order
C31_ReturnsGreatestRevision ==
    (accessor.pc = "done" /\ accessor.pod # <<>>) =>
        \E i \in 1..Len(Candidates) :
            /\ accessor.pod[1] = Candidates[i]
            /\ \A j \in 1..Len(Candidates) :
                   Atoi(Candidates[j].revision).n <= Atoi(Candidates[i].revision).n

\* C32: getStaticPodForGraceful never returns a nil pod with a nil error
C32_NeverNilPodNilError ==
    accessor.pc = "done" => ~(accessor.pod = <<>> /\ accessor.err = NoError)

\* the entries of the signing-certs config map, none when it does not exist
CertData == IF signer.cm = <<>> THEN {} ELSE signer.cm[1]

\* the step copies a private key to the operand's secret
Promotes ==
    /\ signer'.target # signer.target
    /\ signer'.target # <<>>

\* C33: a private key is copied to the operand's secret only when its public
\* key is in the signing-certs config map, and a sync whose Get or Apply of
\* the config map fails returns the error without promoting
C33_PublicKeyBeforePrivateKey ==
    /\ [][Promotes => signer'.target[1].priv \in Values(CertData)]_vars
    /\ [][(/\ signer.pc \in {"getConfigMap", "applyConfigMap"}
           /\ signer'.err # signer.err)
          => (/\ signer'.pc = "idle"
              /\ signer'.err # NoError
              /\ signer'.target = signer.target)]_vars

\* C33: the config map could not be applied for the new key 2, the sync has
\* returned the error, and the key is in the next-key secret only
C33_Witness ==
    /\ signer.pc = "idle"
    /\ signer.err = Error("sync", "ApplyConfigMap")
    /\ signer.next # <<>>
    /\ signer.next[1].priv = 2
    /\ 2 \notin Values(CertData)
    /\ signer.target = <<>>

\* C34, as stated: the operand's secret holds a generated key only from its
\* creation time plus readyInterval on, and the sync that created the key
\* does not promote it
C34_NotBeforeCreationPlusInterval ==
    /\ [](\A k \in 2..Len(signer.created) :
            (signer.target # <<>> /\ signer.target[1].priv = k)
                => signer.now >= signer.created[k] + readyInterval)
    /\ [][Promotes => ~signer.creating]_vars

\* the time a generated key's annotation names
AnnotatedTime(k) == ParseRFC3339(readyTime(signer.created[k])).t

\* C34: the operand's secret holds a generated key only after the time its
\* annotation names, which is the creation time plus readyInterval cut to
\* the whole second and so less than a second earlier; every promotion
\* follows a check that found the annotation missing, unparseable or naming
\* a time before the clock reading of the check
C34_NotBeforeAnnotatedTime ==
    /\ [](\A k \in 2..Len(signer.created) :
            /\ AnnotatedTime(k) > signer.created[k] + readyInterval - TicksPerSecond
            /\ (signer.target # <<>> /\ signer.target[1].priv = k)
                   => signer.now > AnnotatedTime(k))
    /\ [][Promotes =>
            LET ann == signer.signingSecret[1].ann IN
            /\ signer.checked <= signer.now
            /\ \/ Len(ann) = 0
               \/ ParseRFC3339(ann).err # NoError
               \/ signer.checked > ParseRFC3339(ann).t]_vars

\* C34: the key 2 is in the operand's secret before its creation time plus
\* readyInterval
C34_Witness ==
    /\ signer.target # <<>>
    /\ signer.target[1].priv = 2
    /\ signer.now < signer.created[2] + readyInterval

\* C35: a step of the sync leaves every entry of the signing-certs config
\* map in place, and changes the config map only by adding the current
\* public key, which is not among the values, under a key not in use
C35_PublicKeysOnlyGrow ==
    /\ [](Cardinality(Keys(CertData)) = Cardinality(CertData))
    /\ [][/\ CertData \subseteq CertData'
          /\ signer'.cm # signer.cm =>
                \E e \in CertData' :
                    /\ CertData' = CertData \cup {e}
                    /\ e[1] \notin Keys(CertData)
                    /\ e[2] \notin Values(CertData)
                    /\ e[2] = signer.signingSecret[1].pub]_vars

\* C35: the config map held the public key 1 under the second name, and the
\* public key 2 has been added under the third
C35_Witness ==
    CertData = {<<possibleKey(2), 1>>, <<possibleKey(3), 2>>}

====
